---------------------------- MODULE UserManager ----------------------------
(***************************************************************************)
(* The user database of the server (libcloak-server/src/usermanager.c):    *)
(* credits, session caps and expiry per user, metered in batches.  Its     *)
(* operators take the state of the database and return the new one.        *)
(*                                                                         *)
(* A database is a record: void (no database was configured), row (what a  *)
(* statement reads now), open (a transaction was left open by a rollback   *)
(* that failed) and saved (what is committed; row when none is open).      *)
(* A row also has paid, a history of what was charged to it, which is      *)
(* committed and rolled back with the row.                                 *)
(***************************************************************************)
EXTENDS Integers, FiniteSets, Functions, TLC

CONSTANTS INT64_MIN, INT64_MAX   \* the ends of a credit and of a usage

Zero == [up |-> 0, down |-> 0]
Plus(a, b) == [up |-> a.up + b.up, down |-> a.down + b.down]

(* The columns of a row that a write leaves out when it creates the row. *)
Defaults == [cap |-> 0, up |-> 0, down |-> 0, expired |-> TRUE, paid |-> Zero]

NewDb(void, rows) ==
    [void |-> void, row |-> rows, open |-> FALSE, saved |-> rows]

SubNonnegSat(credit, usage) ==
    IF credit < INT64_MIN + usage THEN INT64_MIN ELSE credit - usage

ClampUsage(usage) == IF usage < 0 THEN 0 ELSE usage

CheckGates(r) == r.up > 0 /\ r.down > 0 /\ ~r.expired

(* reads says whether SQLite could run the statement of um_load. *)
Load(db, uid, reads) == ~db.void /\ reads /\ uid \in DOMAIN db.row

Authenticate(db, uid, reads) == Load(db, uid, reads) /\ CheckGates(db.row[uid])

AuthoriseNewSession(db, uid, existing, reads) ==
    Authenticate(db, uid, reads) /\ existing < db.row[uid].cap

Metered(r, usage) ==
    [r EXCEPT !.up = SubNonnegSat(@, ClampUsage(usage.up)),
              !.down = SubNonnegSat(@, ClampUsage(usage.down)),
              !.paid = Plus(@, usage)]

(* How a batch ends: committed, rolled back, or failed after the users in  *)
(* done were metered with a rollback that failed as well.                  *)
Committed == [end |-> "commit", done |-> {}]
RolledBack == [end |-> "rollback", done |-> {}]
Stuck(uids) == [end |-> "stuck", done |-> uids]

(* The rows after metering the users of batch that are in uids. *)
MeterRows(rows, batch, uids) ==
    [u \in DOMAIN rows |->
        IF u \in uids \cap DOMAIN batch THEN Metered(rows[u], batch[u])
                                        ELSE rows[u]]

(* Who has to go: no row, no credit left, or expired. *)
Doomed(rows, batch) ==
    {u \in DOMAIN batch : u \notin DOMAIN rows \/ ~CheckGates(rows[u])}

CommitOpen(db) == [db EXCEPT !.saved = db.row, !.open = FALSE]
RollBack(db) == [db EXCEPT !.row = db.saved, !.open = FALSE]

(* cloak_usermanager_upload_status: an open transaction is rolled back     *)
(* first, and if even that fails the manager meters no more.               *)
UploadStatus(db, batch, outcome) ==
    LET clean == RollBack(db)
        all == MeterRows(clean.row, batch, DOMAIN batch)
    IN CASE db.void \/ (db.open /\ outcome.end = "stuck") ->
              [rc |-> -1, db |-> db, terminate |-> {}]
         [] outcome.end = "rollback" ->
              [rc |-> -1, db |-> clean, terminate |-> {}]
         [] ~db.open /\ outcome.end = "stuck" ->
              [rc |-> -1, terminate |-> {},
               db |-> [clean EXCEPT !.open = TRUE,
                         !.row = MeterRows(@, batch, outcome.done)]]
         [] outcome.end = "commit" /\ ~db.void ->
              [rc |-> 0, terminate |-> Doomed(all, batch),
               db |-> [clean EXCEPT !.row = all, !.saved = all]]

(* A write inside a transaction left open is visible but not committed. *)
Store(db, rows) ==
    [db EXCEPT !.row = rows, !.saved = IF db.open THEN @ ELSE rows]

(* new has the columns that the write names. *)
Write(db, uid, new) ==
    Store(db, (uid :> (new @@ (IF uid \in DOMAIN db.row THEN db.row[uid]
                                                        ELSE Defaults)))
                @@ db.row)

Delete(db, uid) == Store(db, Restrict(db.row, DOMAIN db.row \ {uid}))
=============================================================================
