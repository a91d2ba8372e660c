----------------------------- MODULE SessionTable -----------------------------
(***************************************************************************)
(* What the server's registry and address pool promise together, without   *)
(* saying how: a table of sessions, each with a connection, a client name  *)
(* and a tunnel address, in which no name and no address occurs twice.     *)
(* A connection is entered at most once, and leaves for good.              *)
(***************************************************************************)
CONSTANTS Conn, Name, Addr

VARIABLES
    table,      \* the live sessions
    ended       \* the connections whose session is over

Row == [conn : Conn, name : Name, addr : Addr]

Init == table = {} /\ ended = {}

Open(row) ==
    /\ row.conn \notin ended
    /\ \A r \in table : r.conn # row.conn /\ r.name # row.name /\ r.addr # row.addr
    /\ table' = table \cup {row}
    /\ UNCHANGED ended

Close(row) ==
    /\ row \in table
    /\ table' = table \ {row}
    /\ ended' = ended \cup {row.conn}

Next == \E row \in Row : Open(row) \/ Close(row)

Spec == Init /\ [][Next]_<<table, ended>>
=============================================================================
