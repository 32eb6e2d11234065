------------------------------- MODULE MCSpike -------------------------------
(* Small instances of the simulator's parts.                                *)
EXTENDS SpikeHart, TLC

Pte(ppn, rwx, u) == [v |-> TRUE, r |-> "r" \in rwx, w |-> "w" \in rwx, x |-> "x" \in rwx,
                     u |-> u, a |-> FALSE, d |-> FALSE, ppn |-> ppn]

\* Two levels of two entries.  Pages 4 and 5 are root tables, 6 a second
\* level; page 7 is not memory.  Virtual pages 0, 1 are translated by table 6,
\* 6 and 7 (negative addresses) by a superpage; 3 is not canonical.
Tables ==
    {<<4, 0>> :> Pte(6, {}, FALSE) @@ <<4, 1>> :> Pte(2, {"r", "w"}, FALSE)
     @@ <<5, 0>> :> Pte(6, {}, FALSE) @@ <<5, 1>> :> Pte(0, {"r", "x"}, TRUE)
     @@ <<6, 0>> :> Pte(1, {"r", "w", "x"}, TRUE) @@ <<6, 1>> :> Pte(7, {"r", "w"}, TRUE)}

MStatus(vm, mprv, mpp, pum, mxr, ie) ==
    [vm |-> vm, mprv |-> mprv, mpp |-> mpp, pum |-> pum, mxr |-> mxr, mie |-> FALSE,
     sie |-> ie, mpie |-> ie, spie |-> ie, spp |-> "U"]

Modes == {<<"mstatus", MStatus(TRUE, FALSE, "U", FALSE, FALSE, FALSE)>>,
          <<"mstatus", MStatus(TRUE, FALSE, "S", FALSE, TRUE, FALSE)>>,
          <<"sstatus", MStatus(FALSE, FALSE, "U", TRUE, FALSE, FALSE)>>,
          <<"sptbr", 4>>, <<"sptbr", 5>>}
Borrowing == {<<"mstatus", MStatus(TRUE, TRUE, "S", FALSE, TRUE, FALSE)>>,
              <<"mstatus", MStatus(TRUE, TRUE, "H", TRUE, FALSE, FALSE)>>}
Pages(vpns, csrw, ops) == [csrw |-> csrw, vpns |-> vpns, ints |-> {},
                           ptes |-> {<<<<6, 0>>, Pte(0, {"r"}, FALSE)>>}, ops |-> ops]
Paging == Pages({0, 3, 6}, Modes, {"load", "store", "fetch", "sfence.vm", "mret", "ecall"})
\* Data accesses in the mode of MPP
Lending == Pages({0, 6}, Modes \cup Borrowing, {"load", "store", "sfence.vm", "mret", "ecall"})
Trapping == [csrw |-> {<<"mstatus", MStatus(FALSE, FALSE, "S", FALSE, FALSE, TRUE)>>,
                       <<"mideleg", {"SSI", "MTI"}>>, <<"medeleg", {"ecall U", "break"}>>,
                       <<"mie", {"SSI", "STI", "MTI"}>>, <<"sie", {}>>, <<"mip", {"SSI", "STI"}>>,
                       <<"sip", {}>>},
             vpns |-> {}, ints |-> {"MTI"}, ptes |-> {},
             ops |-> {"mret", "sret", "ecall", "ebreak"}]
Trigger(dmode, action, kinds, match, chain) ==
    [dmode |-> dmode, action |-> action, chain |-> chain, match |-> match,
     prvs |-> {"M", "U"}, kinds |-> kinds]
Watching == [csrw |-> {<<"tselect", 0>>, <<"tselect", 1>>, <<"tselect", 2>>,
                       <<"tdata1", Trigger(FALSE, "exception", {"LOAD", "FETCH"}, "GE", FALSE)>>,
                       <<"tdata1", Trigger(TRUE, "debug", {"STORE"}, "NAPOT", FALSE)>>,
                       <<"tdata1", Trigger(FALSE, "debug", {"LOAD"}, "EQUAL", TRUE)>>,
                       <<"tdata1", Trigger(FALSE, "debug", {"LOAD"}, "LT", FALSE)>>,
                       <<"tdata2", 1>>, <<"dcsr", [ebreak |-> {"M"}, prv |-> "M"]>>},
             vpns |-> {0, 6}, ints |-> {}, ptes |-> {},
             ops |-> {"load", "store", "fetch", "dret", "ebreak", "mret"}]
Software == {Paging, Lending, Trapping, Watching}
=============================================================================
