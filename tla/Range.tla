-------------------------------- MODULE Range --------------------------------
(***************************************************************************)
(* Execution positions and ranges of range.c.  The text of a position has  *)
(* a mark ("@" an address, "#" a cycle, "" an instruction count) and a     *)
(* number, the name of a symbol or something that is neither; the text of  *)
(* a range has its ends, either of which may be None, around a colon.      *)
(***************************************************************************)
EXTENDS Integers

CONSTANTS None, FOREVER      \* the end of a range without one

\* syms: the addresses of the symbols of the program.
range_parse_pos(text, syms) ==
    LET pos(n) == [err |-> "none",
                   pos |-> [ptype |-> CASE text.mark = "@" -> "addr"
                                        [] text.mark = "#" -> "cycle"
                                        [] OTHER -> "inst",
                            pos |-> n]]
    IN  IF text.kind = "number" THEN pos(text.n)
        ELSE IF text.kind = "name" /\ text.name \in DOMAIN syms
        THEN pos(syms[text.name])
        ELSE [pos(0) EXCEPT !.err = "cannot bind execution position to a value"]

\* The start is instruction 0 unless it is given, and the end is of its type
\* unless it is given other than as a distance.
range_parse_range(text, syms) ==
    LET start == IF text.start = None
                 THEN [err |-> "none", pos |-> [ptype |-> "inst", pos |-> 0]]
                 ELSE range_parse_pos(text.start, syms)
        end   == CASE text.end = None ->
                        [err |-> "none", pos |-> [start.pos EXCEPT !.pos = FOREVER]]
                   [] text.end # None /\ text.end.mark = "+" ->
                        IF text.end.kind = "number"
                        THEN [err |-> "none",
                              pos |-> [start.pos EXCEPT !.pos = @ + text.end.n]]
                        ELSE [err |-> "badly formed execution range delta",
                              pos |-> start.pos]
                   [] OTHER -> range_parse_pos(text.end, syms)
    IN  CASE ~text.colon -> [err |-> "badly formed execution range"]
          [] text.colon /\ start.err # "none" -> [err |-> start.err]
          [] text.colon /\ start.err = "none" /\ end.err # "none" -> [err |-> end.err]
          [] OTHER -> [err |-> "none", range |-> [start |-> start.pos, end |-> end.pos]]

\* Before, in or after the range, whose ends are in it.  Faulty variant: the end
\* is not.  A range whose ends differ in type is a panic.
range_cmp_rangeOpen(range, n) ==
    IF n < range.start.pos THEN -1 ELSE IF n < range.end.pos THEN 0 ELSE 1
range_cmp_range(range, n) ==
    IF n < range.start.pos THEN -1 ELSE IF n <= range.end.pos THEN 0 ELSE 1

Comparable(range) == range.start.ptype = range.end.ptype

\* The same, of whichever of the three the range is about.
range_cmp_range1(range, addr, icount, cycle) ==
    range_cmp_range(range, CASE range.start.ptype = "addr" -> addr
                             [] range.start.ptype = "inst" -> icount
                             [] range.start.ptype = "cycle" -> cycle)
=============================================================================
