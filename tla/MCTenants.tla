----------------------------- MODULE MCTenants ------------------------------
(***************************************************************************)
(* The two users of a server's sessions, Proxy and AdminApi, and the       *)
(* server's own liveness.  tenant says what this behaviour is about: the   *)
(* proxy on the caps of two sessions, the proxy on few streams (where its  *)
(* liveness is checked), the admin API (reading requests, or writing       *)
(* answers), or the server with a single connection.                       *)
(***************************************************************************)
EXTENDS Integers, Sequences, FiniteSets, TLC

CONSTANTS k1, k2, s1, s2, s3, c1

VARIABLES tenant, proxy, api, ledger, sesh, peer, users, free, stack,
          conns, srv, up

tenantVars == <<proxy, api, ledger, sesh, peer, users, free, stack>>
coreVars == <<conns, srv, up>>

proxyVars == <<proxy, ledger, sesh, stack>>
apiVars == <<api, ledger, sesh, peer, users, free, stack>>

Wide == INSTANCE Proxy WITH
    Keys <- {k1, k2}, StreamIds <- {s1, s2, s3}, MAX_PER_SESSION <- 1,
    MAX_TOTAL <- 2, MAX_RETRIES <- 1, MaxNest <- 1
Narrow == INSTANCE Proxy WITH
    Keys <- {k1}, StreamIds <- {s1, s2, s3}, MAX_PER_SESSION <- 2,
    MAX_TOTAL <- 2, MAX_RETRIES <- 2, MaxNest <- 1

-----------------------------------------------------------------------------
(* Requests: a text item per line, a body of one item. *)
Text(n, as) == [k |-> "text", n |-> n, as |-> as]
Asks(method, path) ==
    Text(6, [method |-> method, path |-> path, path_len |-> Len(path)])
Says(name, value) == Text(4, [name |-> name, value |-> value])
Doc(u) == Text(2, [doc |-> u])

Req(line, headers, body) == [line |-> line, headers |-> headers, body |-> body]

ApiRequests == {
    Req(Asks("GET", <<"users">>), << >>, << >>),
    Req(Asks("PUT", <<"users">>), << >>, << >>),
    Req(Asks("GET", <<"users", "ann">>), <<Says("other", 0)>>, << >>),
    Req(Asks("POST", <<"users", "ann">>),
        <<Says("content-length", 2), Says("content-length", 2)>>, <<Doc("ann")>>),
    Req(Asks("POST", <<"users", "ann">>), <<Says("content-length", 2)>>,
        <<Doc("bob")>>),
    Req(Asks("DELETE", <<"users", "ann">>), << >>, << >>),
    Req(Asks("OPTIONS", <<"other">>), << >>, << >>),
    Req(Asks("POST", <<"users", "ann">>),
        <<Says("content-length", 2), Says("content-length", 1)>>, <<Doc("ann")>>),
    Req(Asks("POST", <<"users", "ann">>), <<Says("transfer-encoding", 0)>>,
        <<Doc("ann")>>),
    Req(Asks("GET", <<"users">>), <<Text(4, [folded |-> TRUE])>>, << >>),
    Req(Asks("GET", <<"users">>), [i \in 1..3 |-> Says("other", 0)], << >>),
    Req(Text(9, [method |-> "GET", path |-> <<"users">>, path_len |-> 1]),
        << >>, << >>),
    Req(Asks("GET", <<"users", "ann", "x", "y">>), << >>, << >>),
    Req(Text(1, [junk |-> TRUE]), << >>, << >>),
    Req([Asks("GET", <<"users">>) EXCEPT !.k = "ctl"], << >>, << >>),
    Req(Asks("GET", <<"users">>), <<[Says("other", 0) EXCEPT !.n = 7]>>, << >>),
    Req(Asks("GET", <<"users">>), <<Text(4, [junk |-> TRUE])>>, << >>),
    Req(Asks("POST", <<"users", "ann">>), <<Says("content-length", 5)>>, << >>),
    Req(Asks("POST", <<"users", "ann">>), <<Says("content-length", -1)>>, << >>),
    Req(Asks("POST", <<"users", "ann">>), <<Says("content-length", 3)>>,
        <<Doc("ann")>>)}

Reader == INSTANCE AdminApi WITH
    Keys <- {k1}, StreamIds <- {s1, s2}, Uids <- {"ann", "bob"},
    Requests <- ApiRequests, MAX_PER_SESSION <- 1, MAX_LIST <- 1,
    PoolFrames <- 2, MAX_REQUEST_LINE <- 8, MAX_PATH <- 4,
    MAX_HEADER_LINE <- 6, MAX_HEADERS <- 2, MAX_HEADER_BLOCK <- 18,
    MAX_BODY <- 4
Writer == INSTANCE AdminApi WITH
    Keys <- {k1}, StreamIds <- {s1, s2, s3}, Uids <- {"ann"},
    Requests <- {Req(Asks("OPTIONS", <<"other">>), << >>, << >>)},
    MAX_PER_SESSION <- 2, MAX_LIST <- 1,
    PoolFrames <- 2, MAX_REQUEST_LINE <- 8, MAX_PATH <- 4,
    MAX_HEADER_LINE <- 6, MAX_HEADERS <- 2, MAX_HEADER_BLOCK <- 18,
    MAX_BODY <- 4

(* The server: one connection, one user, two sessions. *)
Hello(sid) == [uid |-> "alice", sid |-> sid, unordered |-> FALSE, method |-> TRUE]
Core == INSTANCE Server WITH
    INT64_MIN <- -100, INT64_MAX <- 100, CLOAK_REGISTRY_MAX_SESSIONS <- 2,
    CLOAK_USERPANEL_MAX_ACTIVE_USERS <- 1, Conns <- {c1},
    MAX_PENDING_CONNS <- 1, Hellos <- {Hello(1), Hello(2)}, Bypass <- {},
    Admin <- "admin",
    Rows <- ("alice" :> [cap |-> 2, up |-> 1, down |-> 1, expired |-> FALSE,
                         paid |-> [up |-> 0, down |-> 0]]),
    MaxUsed <- ("alice" :> [up |-> 0, down |-> 0]), Perishable <- {"alice"},
    MaxConns <- 1, Writes <- {},
    Outcomes <- {[end |-> "commit", done |-> {}], [end |-> "rollback", done |-> {}]},
    Faults <- {"db", "user", "prepare", "init", "compose", "timer"},
    CanCreate <- FALSE, Waiting <- {}, Recorded <- {}

-----------------------------------------------------------------------------
vars == <<tenant, proxy, api, ledger, sesh, peer, users, free, stack,
          conns, srv, up>>

Tenants == {"wide", "narrow", "reader", "writer", "core"}

Init == tenant \in Tenants /\ Wide!Init /\ Reader!Init /\ Core!Init

Next ==
    \/ /\ tenant = "wide" /\ Wide!Next
       /\ UNCHANGED <<tenant, api, peer, users, free, coreVars>>
    \/ /\ tenant = "narrow" /\ Narrow!Next
       /\ UNCHANGED <<tenant, api, peer, users, free, coreVars>>
    \/ tenant = "reader" /\ Reader!Next /\ UNCHANGED <<tenant, proxy, coreVars>>
    \/ tenant = "writer" /\ Writer!Next /\ UNCHANGED <<tenant, proxy, coreVars>>
    \/ tenant = "core" /\ Core!Next /\ UNCHANGED <<tenant, tenantVars>>

Spec == Init /\ [][Next]_vars

(* The fairness of Proxy, AdminApi and Server. *)
FairSpec ==
    /\ Spec
    /\ WF_proxyVars(tenant = "narrow" /\ Narrow!Returns)
    /\ WF_apiVars(tenant = "writer" /\ Writer!Returns)
    /\ \A id \in {s1, s2} :
          /\ SF_proxyVars(tenant = "narrow" /\ Narrow!OnDial(id))
          /\ SF_proxyVars(tenant = "narrow" /\ Narrow!OnRetryTimer(id))
          /\ SF_apiVars(tenant = "writer" /\ Writer!OnDeadline(id))
    /\ WF_coreVars(tenant = "core" /\ Core!OnDeadline(c1))
    /\ WF_coreVars(tenant = "core" /\ Core!OnDialDone(c1))
    /\ \A id \in 1 .. 2 : WF_coreVars(tenant = "core" /\ Core!OnSessionBroken(id))
    /\ WF_coreVars(tenant = "core" /\ Core!OnSweepTimer)
    /\ SF_coreVars(tenant = "core" /\ Core!UploadCommits)

-----------------------------------------------------------------------------
(* The properties of the two modules, each for its own behaviours. *)

(* No timer, descriptor, stream or saved pointer of either tenant outlives *)
(* what it belongs to, and the proxy's caps hold (proxy_stream_teardown,   *)
(* adminapi_stream_teardown, proxy_stream_unlink): see NothingStrays       *)
(* and CapsHold of Proxy, NothingStrays of AdminApi.                       *)
NothingStrays ==
    CASE tenant = "wide" ->
           Wide!NothingStrays /\ Wide!SavedNextIsLive /\ Wide!CapsHold
      [] tenant = "narrow" ->
           Narrow!NothingStrays /\ Narrow!SavedNextIsLive /\ Narrow!CapsHold
      [] tenant = "reader" -> Reader!NothingStrays
      [] tenant = "writer" -> Writer!NothingStrays
      [] OTHER -> TRUE

(* The admin API answers what it was asked, see AdminApi. *)
AnswersAreRight == [][tenant = "reader" => Reader!RightStep]_vars

(* ... and the client gets that answer once, see AdminApi. *)
AnswerIsWhole == /\ tenant = "reader" => Reader!AnswerIsWhole
                 /\ tenant = "writer" => Writer!AnswerIsWhole

(* Every stream of a session is spliced or given back by the proxy, and    *)
(* given back by the admin API.  The caps leave s3 to refused streams.     *)
Unsettled(id) == \/ tenant = "narrow" /\ Narrow!Unsettled(id)
                 \/ tenant = "writer" /\ Writer!Unsettled(id)
StreamsSettle == \A id \in {s1, s2} : Unsettled(id) ~> ~Unsettled(id)

(* A connection leaves the pending ones, a session that closed leaves the  *)
(* table, and a user who is barred does not stay (the deadlines, the sweep *)
(* and the upload of dispatcher.c, registry.c and userpanel.c): see Server. *)
ServerSettles ==
    Core!PendingEnds /\ Core!ClosedSessionsGo /\ Core!BarredUsersEnd
=============================================================================
