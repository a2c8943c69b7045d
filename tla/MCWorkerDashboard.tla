-------------------------- MODULE MCWorkerDashboard --------------------------
(* WorkerDashboard with small sets, from one of each kind of initial state:  *)
(* another name, language or text is a renaming of these.                    *)
EXTENDS WorkerDashboard

CONSTANTS FirstValue, FirstTrades, FirstName, FirstPlaces, FirstLanguage

Start ==
    /\ Init
    /\ row = [fields |-> FirstValue, available |-> FALSE, cni |-> "unverified"]
    /\ trades = FirstTrades
    /\ account.name = FirstName /\ account.language = FirstLanguage
    /\ account.label \in FirstPlaces
    /\ \A s \in Switches : enabled[s]

\* The language and the worker's profile share no row and no query: no
\* behaviour changes both.
OneOfTheTwo ==
    ~\E c, d \in DOMAIN calls' :
        calls'[c].kind = "language" /\ Home(calls'[d].kind) = "profile"

MCSpec == Start /\ [][Next /\ OneOfTheTwo]_vars
=============================================================================
