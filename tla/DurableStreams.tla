--------------------------- MODULE DurableStreams ---------------------------
(***************************************************************************)
(* What the protocol promises of a server's streams, whatever the store:   *)
(* every path names at most one log of items, each operation touches the   *)
(* log of its own path alone, a log only grows, a closed log is frozen,    *)
(* and a fork is a private copy of a prefix of its source as it was at     *)
(* that moment.  How logs are shared between forks, reference counts and   *)
(* soft deletion do not appear.                                            *)
(***************************************************************************)
EXTENDS Integers

CONSTANTS Path, Item   \* an item has an offset, a size and data

VARIABLE log    \* [Path -> [live, closed, mortal, items]]

\* Items are kept as a set: their offsets order them.
NoLog == [live |-> FALSE, closed |-> FALSE, mortal |-> FALSE, items |-> {}]

Logs == [live : BOOLEAN, closed : BOOLEAN, mortal : BOOLEAN,
         items : SUBSET Item]

UpTo(items, at) == {x \in items : x.offset <= at}
Past(items, at) == {x \in items : x.offset > at}
Ahead(x, items) == \A y \in items : y.offset < x.offset

\* At most one item more.
Extended(new, old) ==
    \/ new = old
    \/ \E x \in new : new = old \cup {x} /\ Ahead(x, old)

(* The operations, as relations between the log of a path before and after. *)

\* The path is free, or holds a log whose time may have come.
Free(old) == ~old.live \/ old.mortal

Create(old, new) == Free(old) /\ new.live /\ Extended(new.items, {})

\* The inherited prefix, then perhaps the head of the source's next item, then
\* perhaps one item of its own.
Fork(old, new, source) ==
    /\ Free(old) /\ source.live /\ new.live
    /\ \E cut \in {-1} \cup {x.offset : x \in source.items} :
         LET prefix == UpTo(source.items, cut)
             rest == Past(source.items, cut)
         IN \/ Extended(new.items, prefix)
            \/ \E x \in rest, y \in new.items :
                 /\ \A z \in rest : x.offset <= z.offset
                 /\ y.data = x.data /\ y.size <= x.size /\ y.offset > cut
                 /\ Extended(new.items, prefix \cup {y})

Append(old, new) ==
    /\ old.live /\ ~old.closed
    /\ \E x \in new.items :
         /\ Ahead(x, old.items)
         /\ new = [old EXCEPT !.items = @ \cup {x}, !.closed = new.closed]

Close(old, new) == old.live /\ new = [old EXCEPT !.closed = TRUE]

Remove(new) == new = NoLog

\* An operation on one path, or the end of every stream.
Next ==
    \/ \E p \in Path :
        /\ \A r \in Path \ {p} : log'[r] = log[r]
        /\ \/ Close(log[p], log'[p]) \/ Remove(log'[p])
           \/ Append(log[p], log'[p]) \/ Create(log[p], log'[p])
           \/ \E q \in Path \ {p} : Fork(log[p], log'[p], log[q])
    \/ \A p \in Path : Remove(log'[p])

Init == log = [p \in Path |-> NoLog]

Spec == Init /\ [][Next]_log
=============================================================================
