------------------------------ MODULE Registry ------------------------------
(***************************************************************************)
(* The server's table of sessions (libcloak-server/src/registry.c), keyed  *)
(* by user and session id.  An entry that broke is marked dead and freed   *)
(* later by a sweep: until then it is linked and counts against the table, *)
(* but no lookup finds it.                                                 *)
(*                                                                         *)
(* A registry is a record: entry (a function from the ids of the linked    *)
(* entries), sweep_timer (armed) and destroyed.  An entry records the user *)
(* object whose valve the session was given (0: none), how many            *)
(* connections it has, and whether it was closed and has still to report.  *)
(* The hash chains are the set of linked entries that a lookup searches.   *)
(***************************************************************************)
EXTENDS Integers, FiniteSets, FiniteSetsExt, Functions, TLC

CONSTANT CLOAK_REGISTRY_MAX_SESSIONS
RegistryAssumption == CLOAK_REGISTRY_MAX_SESSIONS \in Nat \ {0}

EntryIds == 1..CLOAK_REGISTRY_MAX_SESSIONS

NewRegistry == [entry |-> <<>>, sweep_timer |-> FALSE, destroyed |-> FALSE]

Linked(reg) == DOMAIN reg.entry

Key(e) == <<e.uid, e.sid>>

(* registry_entry_unlink and registry_free_entry, of a set of entries. *)
Free(reg, ids) == [reg EXCEPT !.entry = Restrict(@, DOMAIN @ \ ids)]

MarkDead(reg, id) == [reg EXCEPT !.entry[id].dead = TRUE]

Dead(reg) == {id \in Linked(reg) : reg.entry[id].dead}

(* At most one entry: see OwnersMatch in Server. *)
FindLive(reg, uid, sid) ==
    {id \in Linked(reg) \ Dead(reg) : Key(reg.entry[id]) = <<uid, sid>>}

Sweep(reg) == Free(reg, Dead(reg))

SweepTimer(reg) == Sweep([reg EXCEPT !.sweep_timer = FALSE])

(* armed says whether the reactor had room for the timer. *)
ArmSweep(reg, armed) ==
    IF reg.destroyed \/ reg.sweep_timer THEN reg
    ELSE IF armed THEN [reg EXCEPT !.sweep_timer = TRUE]
                  ELSE Sweep(reg)

(* The dead entries count: their memory is not yet given back. *)
Full(reg) == Cardinality(Linked(reg)) >= CLOAK_REGISTRY_MAX_SESSIONS

(* cloak_server_registry_get_or_create, of a session configured by cfg;    *)
(* inits says whether memory was found and cloak_session_init succeeded.   *)
GetOrCreate(reg, uid, sid, cfg, inits) ==
    LET old == FindLive(reg, uid, sid)
        id == Min(EntryIds \ Linked(reg))
        new == cfg @@ [uid |-> uid, sid |-> sid, conns |-> 0,
                       closing |-> FALSE, dead |-> FALSE]
    IN CASE old # {} ->
              [reg |-> reg, found |-> old, created |-> FALSE]
         [] old = {} /\ (Full(reg) \/ ~inits) ->
              [reg |-> reg, found |-> {}, created |-> FALSE]
         [] old = {} /\ ~Full(reg) /\ inits ->
              [reg |-> [reg EXCEPT !.entry = (id :> new) @@ @],
               found |-> {id}, created |-> TRUE]

Close(reg, uid, sid) == Free(reg, FindLive(reg, uid, sid))

LiveOf(reg, uid) == {id \in Linked(reg) \ Dead(reg) : reg.entry[id].uid = uid}

CountForUid(reg, uid) == Cardinality(LiveOf(reg, uid))

AllLive(reg, uid) == LiveOf(reg, uid)

(* The entries that cloak_server_registry_close_all_for_uid closes: the    *)
(* dead ones too, so that none outlives the user whose valve it holds.     *)
AllOf(reg, uid) == {id \in Linked(reg) : reg.entry[id].uid = uid}

Count(reg) == Cardinality(Linked(reg) \ Dead(reg))

Destroy(reg) ==
    Free([reg EXCEPT !.destroyed = TRUE, !.sweep_timer = FALSE], Linked(reg))
=============================================================================
