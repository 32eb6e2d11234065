------------------------------- MODULE GdbWire -------------------------------
(***************************************************************************)
(* The bytes between gdb and the server: a stream the server reads in      *)
(* pieces into a circular buffer, scans for packets, checks and decodes,   *)
(* and a second circular buffer through which its replies leave.           *)
(* GdbServer takes up where a request has been decoded.                    *)
(*                                                                         *)
(* A hexadecimal digit counts to HexBase instead of 16; a byte is two digits. *)
(***************************************************************************)
EXTENDS Integers, Sequences, FiniteSetsExt, SequencesExt

CONSTANTS RecvSize, SendSize,  \* capacities of recv_buf and send_buf
          Requests,            \* what gdb may ask for
          MaxRequests,         \* how often it asks
          Code                 \* the number of each character

VARIABLES srv,        \* the server: buffers, expect_ack, operation queue
          toServer,   \* bytes in the socket, towards the server
          toGdb,      \* and all bytes gdb has received, in order
          issued,     \* the requests gdb has sent
          gdb         \* how much of toGdb gdb has acknowledged, and whether it
                      \* waits for the program to stop

wvars == <<srv, toServer, toGdb, issued, gdb>>

HexBase == 4
Byte == HexBase * HexBase
DigitChar == [d \in 0..HexBase - 1 |-> <<"0", "1", "2", "3">>[d + 1]]
character_hex_value(c) ==
  IF \E d \in 0..HexBase - 1 : DigitChar[d] = c
  THEN CHOOSE d \in 0..HexBase - 1 : DigitChar[d] = c ELSE Byte
\* sprintf("%02x")
TwoDigits(v) == <<DigitChar[(v \div HexBase) % HexBase], DigitChar[v % HexBase]>>
Sum(chars) == FoldLeft(LAMBDA n, c : (n + Code[c]) % Byte, 0, chars)

-----------------------------------------------------------------------------
(* circular_buffer_t                                                       *)

Buffer(capacity) == [data |-> [i \in 0..capacity - 1 |-> "+"], start |-> 0, end |-> 0,
                     capacity |-> capacity]
size(b) == IF b.end >= b.start THEN b.end - b.start ELSE b.end + b.capacity - b.start
empty(b) == b.start = b.end
full(b) == (b.end + 1) % b.capacity = b.start
entry(b, i) == b.data[(b.start + i) % b.capacity]
consume(b, bytes) == [b EXCEPT !.start = (@ + bytes) % b.capacity]
contiguous_empty_size(b) ==
  IF b.end >= b.start
  THEN IF b.start = 0 THEN b.capacity - b.end - 1 ELSE b.capacity - b.end
  ELSE b.start - b.end - 1
contiguous_data_size(b) == IF b.end >= b.start THEN b.end - b.start ELSE b.capacity - b.start
contiguous_data(b) == [i \in 1..contiguous_data_size(b) |-> b.data[b.start + i - 1]]
data_added(b, bytes) == [b EXCEPT !.end = IF @ + bytes = b.capacity THEN 0 ELSE @ + bytes]
reset(b) == [b EXCEPT !.start = 0, !.end = 0]
\* memcpy to contiguous_empty()
Copied(b, src, n) ==
  [b EXCEPT !.data = [i \in DOMAIN @ |-> IF i >= b.end /\ i < b.end + n THEN src[i - b.end + 1]
                                          ELSE @[i]]]
\* What does not fit before the end of the buffer is copied to its start,
\* from the beginning of src again.
append(b, src) ==
  LET count == Len(src)
      copy == Min({count, contiguous_empty_size(b)})
      one == data_added(Copied(b, src, copy), copy)
      rest == count - copy
  IN IF rest = 0 THEN one ELSE data_added(Copied(one, src, rest), rest)
Splits(b, src) == Len(src) > contiguous_empty_size(b)
Overflows(b, src) ==
  LET copy == contiguous_empty_size(b)
  IN Splits(b, src) /\ Len(src) - copy >= contiguous_empty_size(data_added(b, copy))
Contents(b) == [i \in 1..size(b) |-> entry(b, i - 1)]

-----------------------------------------------------------------------------
(* Sending.  s.torn remembers that append has met the end of the buffer.   *)

send(s, msg) ==
  [s EXCEPT !.send = append(@, msg),
            !.running_checksum = (@ + Sum(msg)) % Byte,
            !.torn = @ \/ Splits(s.send, msg),
            !.dead = @ \/ Overflows(s.send, msg)]
start_packet(s) == [send(s, <<"$">>) EXCEPT !.running_checksum = 0]
end_packet(s) == [send(s, <<"#">> \o TwoDigits(s.running_checksum)) EXCEPT !.expect_ack = TRUE]
send_packet(s, body) ==
  [end_packet(send(start_packet(s), body)) EXCEPT !.replies = Append(@, body)]
\* send(uint32_t): the bytes of the value, the lowest first, each sent alone.
send_value(s, v, bytes) ==
  FoldLeft(LAMBDA t, i : send(t, TwoDigits((v \div Byte^(i - 1)) % Byte)), s, [i \in 1..bytes |-> i])
ValueBody(v, bytes) ==
  FlattenSeq([i \in 1..bytes |-> TwoDigits((v \div Byte^(i - 1)) % Byte)])
send_value_packet(s, v, bytes) ==
  [end_packet(send_value(start_packet(s), v, bytes)) EXCEPT !.replies = Append(@, ValueBody(v, bytes))]

-----------------------------------------------------------------------------
(* Receiving.                                                              *)

compute_checksum(packet) == Sum(SubSeq(packet, 2, Len(packet) - 3))
extract_checksum(packet) ==
  (character_hex_value(packet[Len(packet)]) + HexBase * character_hex_value(packet[Len(packet) - 1])) % Byte

\* The digits of packet from position i on.
DigitsFrom(packet, i) ==
  LET stop == Min({j \in i..Len(packet) : character_hex_value(packet[j]) >= HexBase})
  IN [k \in 1..stop - i |-> character_hex_value(packet[i + k - 1])]
consume_hex_number(packet, i) ==
  LET d == DigitsFrom(packet, i)
  IN [v |-> FoldLeft(LAMBDA n, x : n * HexBase + x, 0, d), i |-> i + Len(d)]
\* The digits are shifted by one digit, none, three, two, ...
consume_hex_number_le(packet, i) ==
  LET d == DigitsFrom(packet, i)
      place(k) == IF k % 2 = 1 THEN k ELSE k - 2
  IN [v |-> MapThenSumSet(LAMBDA k : d[k] * HexBase^place(k), DOMAIN d), i |-> i + Len(d)]

\* The character whose code differs by 0x20.
Toggled(c) == CASE c = "^C" -> "#" [] c = "^D" -> "$" [] c = "]" -> "}"
                [] c = "#" -> "^C" [] c = "$" -> "^D" [] c = "}" -> "]" [] OTHER -> c
\* length bytes of data from position i on, and the position behind them.
RECURSIVE consume_data(_, _, _, _)
consume_data(packet, i, length, data) ==
  IF length = 0 THEN [v |-> data, i |-> i]
  ELSE IF packet[i] = "}" THEN consume_data(packet, i + 2, length - 1, Append(data, Toggled(packet[i + 1])))
  ELSE consume_data(packet, i + 1, length - 1, Append(data, packet[i]))

Enqueue(s, request) == [s EXCEPT !.queue = Append(@, request), !.handled = Append(@, request)]
handle_register_read(s, packet) ==
  LET n == consume_hex_number(packet, 3)
  IN IF packet[n.i] # "#" THEN send_packet(s, <<"E">>) ELSE Enqueue(s, [k |-> "p", n |-> n.v])
\* "OK" is sent at once and again when the register has been written.
handle_register_write(s, packet) ==
  LET n == consume_hex_number(packet, 3)
      v == consume_hex_number_le(packet, n.i + 1)
  IN IF packet[n.i] # "=" \/ packet[v.i] # "#" THEN send_packet(s, <<"E">>)
     ELSE send_packet(Enqueue(s, [k |-> "P", n |-> n.v, v |-> v.v]), <<"O", "K">>)
handle_memory_read(s, packet) ==
  LET a == consume_hex_number(packet, 3)
      n == consume_hex_number(packet, a.i + 1)
  IN IF packet[a.i] # "," \/ packet[n.i] # "#" THEN send_packet(s, <<"E">>)
     ELSE Enqueue(s, [k |-> "m", addr |-> a.v, length |-> n.v])
handle_memory_binary_write(s, packet) ==
  LET a == consume_hex_number(packet, 3)
      n == consume_hex_number(packet, a.i + 1)
      d == consume_data(packet, n.i + 1, n.v, <<>>)
      request == [k |-> "X", addr |-> a.v, data |-> d.v]
  IN IF packet[a.i] # "," \/ packet[n.i] # ":" THEN send_packet(s, <<"E">>)
     ELSE IF n.v = 0 THEN send_packet([s EXCEPT !.handled = Append(@, request)], <<"O", "K">>)
     ELSE IF packet[d.i] # "#" THEN send_packet(s, <<"E">>)
     ELSE Enqueue(s, request)
handle_continue(s, packet) == Enqueue(s, [k |-> "c"])
handle_halt_reason(s, packet) ==
  send_packet([s EXCEPT !.handled = Append(@, [k |-> "?"])], <<"S", "0", "0">>)

handle_packet(s, packet) ==
  IF compute_checksum(packet) # extract_checksum(packet) THEN send(s, <<"-">>)
  ELSE LET t == send(s, <<"+">>)
       IN CASE packet[2] = "p" -> handle_register_read(t, packet)
            [] packet[2] = "P" -> handle_register_write(t, packet)
            [] packet[2] = "m" -> handle_memory_read(t, packet)
            [] packet[2] = "X" -> handle_memory_binary_write(t, packet)
            [] packet[2] = "c" -> handle_continue(t, packet)
            [] packet[2] = "?" -> handle_halt_reason(t, packet)
            [] OTHER -> send_packet(t, <<>>)
handle_interrupt(s) ==
  [s EXCEPT !.queue = Append(@, [k |-> "halt"]), !.handled = Append(@, [k |-> "^C"])]

\* Acknowledgements and interrupts are taken one after the other, until a
\* packet has been handled, thrown away or found to be incomplete.
RECURSIVE process_requests(_)
process_requests(s) ==
  LET in == Contents(s.recv)
      complete == {i \in 4..Len(in) : in[i - 2] = "#"}
      restart == {i \in 2..Len(in) : in[i] = "$"}
      stop == complete \cup restart
      Consume(n) == [s EXCEPT !.recv = consume(@, n)]
  IN IF in = <<>> THEN s
     ELSE IF s.expect_ack /\ in[1] = "+" THEN process_requests(Consume(1))
     ELSE IF in[1] = "^C" THEN process_requests(handle_interrupt(Consume(1)))
     ELSE IF stop = {} THEN [s EXCEPT !.dead = @ \/ full(s.recv)]
     ELSE IF Min(stop) \in restart THEN Consume(Min(stop) - 1)
     ELSE handle_packet(Consume(Min(stop)), SubSeq(in, 1, Min(stop)))

-----------------------------------------------------------------------------
(* One call of handle().                                                   *)

\* The operation at the front: its reply, when it has one.
perform_step(s) ==
  LET o == Head(s.queue)
      t == [s EXCEPT !.queue = Tail(@)]
  IN CASE o.k = "p" -> send_value_packet(t, 3 * o.n + 1, 2)
       [] o.k = "m" -> send_value_packet(t, o.addr, o.length)
       [] o.k \in {"P", "X"} -> send_packet(t, <<"O", "K">>)
       [] o.k = "halt" -> send_packet([t EXCEPT !.running = FALSE], <<"S", "0", "2">>)
       [] o.k = "c" -> [t EXCEPT !.running = TRUE]

\* Mutant: a short read counts as one of the size asked for.
read_Full(s, bytes) ==
  LET n == Min({contiguous_empty_size(s.recv), Len(bytes) + 1})
  IN [s EXCEPT !.recv = data_added(Copied(@, bytes, Len(bytes)), n)]
\* A read of no bytes, also one into a full buffer, is a disconnection.
read(s, bytes) ==
  IF bytes = <<>> THEN [s EXCEPT !.recv = reset(@), !.send = reset(@), !.dead = TRUE]
  ELSE [s EXCEPT !.recv = data_added(Copied(@, bytes, Len(bytes)), Len(bytes))]

\* Everything in the buffer, in at most two pieces.
Drained(b) == LET one == consume(b, contiguous_data_size(b))
              IN contiguous_data(b) \o contiguous_data(one)

Handle ==
  /\ ~srv.dead
  /\ LET room == contiguous_empty_size(srv.recv)
         most == Min({Len(toServer), room})
     IN \E bytes \in {0, 1, 2, most} :
       LET s1 == IF srv.queue # <<>> THEN perform_step(srv) ELSE srv
           s2 == IF srv.halted THEN [s1 EXCEPT !.queue = Append(@, [k |-> "halt"]), !.halted = FALSE]
                 ELSE s1
           s3 == IF room # 0 /\ toServer = <<>> THEN s2 ELSE read(s2, SubSeq(toServer, 1, bytes))
           s4 == [s3 EXCEPT !.send = consume(@, size(@))]
       IN /\ bytes <= most /\ (bytes = 0 => most = 0)
          /\ srv' = IF s4.queue = <<>> THEN process_requests(s4) ELSE s4
          /\ toGdb' = toGdb \o Drained(s3.send)
          /\ toServer' = SubSeq(toServer, bytes + 1, Len(toServer))
  /\ UNCHANGED <<issued, gdb>>

-----------------------------------------------------------------------------
(* gdb, from what the server expects of it.                                *)

Frame(body) == <<"$">> \o body \o <<"#">> \o TwoDigits(Sum(body))
HexNumber(v) == IF v < HexBase THEN <<DigitChar[v]>>
                ELSE IF v < Byte THEN TwoDigits(v)
                ELSE TwoDigits(v \div Byte) \o TwoDigits(v % Byte)
Escaped(data) == FlattenSeq([i \in DOMAIN data |->
                   IF data[i] \in {"#", "$", "}"} THEN <<"}", Toggled(data[i])>> ELSE <<data[i]>>])
Encoded(r) ==
  CASE r.k = "p" -> Frame(<<"p">> \o HexNumber(r.n))
    [] r.k = "P" -> Frame(<<"P">> \o HexNumber(r.n) \o <<"=">> \o ValueBody(r.v, 2))
    [] r.k = "m" -> Frame(<<"m">> \o HexNumber(r.addr) \o <<",">> \o HexNumber(r.length))
    [] r.k = "X" -> Frame(<<"X">> \o HexNumber(r.addr) \o <<",">> \o HexNumber(Len(r.data)) \o <<":">>
                          \o Escaped(r.data))
    [] r.k \in {"c", "?"} -> Frame(<<r.k>>)

\* The packets among the bytes received.
Framed(bytes) ==
  LET ends == {i \in 3..Len(bytes) : bytes[i - 2] = "#"}
      starts == {i \in DOMAIN bytes : bytes[i] = "$"}
      Body(e) == LET b == Max({i \in starts : i < e}) IN SubSeq(bytes, b, e)
  IN [k \in 1..Cardinality(ends) |->
        Body(CHOOSE e \in ends : Cardinality({x \in ends : x <= e}) = k)]

\* gdb acknowledges its connection first, and asks when the last answer came.
Issue ==
  /\ Len(issued) < MaxRequests /\ ~srv.torn
  /\ ~gdb.waits /\ gdb.acked = Len(Framed(toGdb))
  /\ \E r \in Requests :
       /\ issued' = Append(issued, r)
       /\ toServer' = toServer \o Encoded(r)
  /\ gdb' = [gdb EXCEPT !.waits = TRUE]
  /\ UNCHANGED <<srv, toGdb>>
Interrupt ==
  /\ gdb.waits /\ issued # <<>> /\ Last(issued).k = "c" /\ Len(issued) < MaxRequests
  /\ issued' = Append(issued, [k |-> "^C"])
  /\ toServer' = Append(toServer, "^C")
  /\ UNCHANGED <<srv, toGdb, gdb>>
Acknowledge ==
  /\ ~srv.torn /\ Len(Framed(toGdb)) > gdb.acked
  /\ toServer' = Append(toServer, "+")
  /\ gdb' = [acked |-> gdb.acked + 1, waits |-> FALSE]
  /\ UNCHANGED <<srv, toGdb, issued>>
\* The program runs into a breakpoint: a halt notification.
Stops ==
  /\ srv.running /\ srv.queue = <<>> /\ ~srv.halted
  /\ srv' = [srv EXCEPT !.halted = TRUE, !.running = FALSE]
  /\ UNCHANGED <<toServer, toGdb, issued, gdb>>

WireInit ==
  /\ srv = [recv |-> Buffer(RecvSize), send |-> Buffer(SendSize), expect_ack |-> FALSE,
            running_checksum |-> 0, queue |-> <<>>, halted |-> FALSE, running |-> FALSE,
            dead |-> FALSE, torn |-> FALSE, handled |-> <<>>, replies |-> <<>>]
  /\ toServer = <<"+">> /\ toGdb = <<>> /\ issued = <<>>
  /\ gdb = [acked |-> 0, waits |-> FALSE]
WireNext == Handle \/ Issue \/ Interrupt \/ Acknowledge \/ Stops
WireSpec == WireInit /\ [][WireNext]_wvars

-----------------------------------------------------------------------------
(* However the stream is cut into reads and wherever the buffers wrap, the    *)
(* server decodes the requests gdb sent, in order and none twice, never       *)
(* mistakes a full buffer for a disconnection, and comes to rest only when it *)
(* has handled them all.  Unless a message was cut by the end of the send     *)
(* buffer, gdb receives every reply whole and with a right checksum.          *)
WireFaithful ==
  /\ IsPrefix(srv.handled, issued)
  /\ ~srv.dead
  /\ (toServer = <<>> /\ srv.queue = <<>> /\ process_requests(srv) = srv) => srv.handled = issued
  /\ ~srv.torn =>
       LET got == Framed(toGdb)
       IN /\ Len(got) <= Len(srv.replies)
          /\ \A i \in DOMAIN got : got[i] = Frame(srv.replies[i])
          /\ (srv.queue = <<>> /\ empty(srv.send)) => Len(got) = Len(srv.replies)
=============================================================================
