----------------------------- MODULE MCAdminDesk -----------------------------
(* AdminDesk with one subject of each kind and both admins in one            *)
(* department: pages of different departments share no row and no query, so  *)
(* that together they only multiply.  One of the admins opens his page at    *)
(* the start and goes from the list of users to an account, from a queue to  *)
(* that list, or to the other filter; the other has had his page open and    *)
(* stays: what either does to the rows the other may do as well, and nobody  *)
(* sees another's cache.                                                     *)
EXTENDS AdminDesk

CONSTANT Mover

Departments ==
    {Accounts, {"verifications"}, {"reviews"}, {"billing", "unpaid"}}
Together ==
    \E d \in Departments : \A a \in Admins :
        view[a] \in d \/ (a = Mover /\ view[a] = "users")
AtHome == view[Mover] = "users" <=> \E a \in Admins : view[a] \in Accounts

Opened(q) == Received(Answered(StartFetch(NewQuery, FALSE), Snapshot(q)))
Start ==
    /\ settled = [i \in Subjects |-> FALSE]
    /\ pending = [i \in Subjects |-> i \in Workers \cup Reviews]
    /\ log = [i \in Subjects |-> {}]
    /\ calls = <<>> /\ faults = 0 /\ moves = 0
    /\ view \in [Admins -> Views] /\ Together /\ AtHome
    /\ cache = [a \in Admins |-> [q \in Queries |->
           IF q \notin QueriesOf(view[a]) THEN NewQuery
           ELSE IF a = Mover THEN StartFetch(NewQuery, FALSE) ELSE Opened(q)]]

MCSpec ==
    Start /\ [][Next /\ Together' /\ \A a \in Admins \ {Mover} : view'[a] = view[a]]_vars
=============================================================================
