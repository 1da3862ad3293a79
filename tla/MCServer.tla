------------------------------ MODULE MCServer ------------------------------
EXTENDS Server

ASSUME RegistryAssumption /\ PanelAssumption

Hello(u, s, un, m) == [uid |-> u, sid |-> s, unordered |-> un, method |-> m]
Row(cap, credit) == [cap |-> cap, up |-> credit, down |-> credit,
                     expired |-> FALSE, paid |-> Zero]

FrontHellos == {Hello("alice", 1, FALSE, TRUE), Hello("alice", 1, TRUE, TRUE),
                Hello("admin", 0, FALSE, FALSE), Hello("admin", 1, FALSE, FALSE)}
FrontRows == ("alice" :> Row(1, 1))
FrontOutcomes == {Committed}
IntMin == -100

(* Two users who come and go, behind three who left: the queue holds four. *)
UserHellos == {Hello(u, 1, FALSE, TRUE) : u \in {"carol", "dave"}}
UserRows == [u \in {"carol", "dave", "eve", "fay", "gil"} |-> Row(1, 1)]
UserWaiting == {"eve", "fay", "gil"}
UserOutcomes == {Committed, RolledBack, Stuck({"carol", "dave"})}
UserMaxUsed == [u \in DOMAIN UserRows |->
                  [up |-> IF u = "carol" THEN 1 ELSE 0,
                   down |-> 0]]
FrontMaxUsed == ("alice" :> Zero)
FrontWrites == {[expired |-> FALSE], [cap |-> 1]}
=============================================================================
