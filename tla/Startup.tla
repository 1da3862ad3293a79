------------------------------- MODULE Startup -------------------------------
(***************************************************************************)
(* The life of a ck-server or ck-client process around its reactor:        *)
(* cmd/ck-server/main.c, cmd/ck-client/main.c, cloak_server_stack_open and *)
(* _close (libcloak-server/src/server_stack.c), the listeners and the      *)
(* signal descriptor (libcloak-common/src/listener.c, signals.c).          *)
(*                                                                         *)
(* A server is built part by part, every part may fail, and what was built *)
(* is taken down again in an order that is not the reverse of it.  The     *)
(* client's stack is one part here (Connector and Client have its own).    *)
(***************************************************************************)
EXTENDS Integers, SequencesExt

CONSTANTS MAX_BIND,      \* CLOAK_MAX_BIND_ADDR
          Addrs,         \* canonical addresses other than the three wildcards
          MaxBind,       \* addresses a configuration names here
          MaxAddrs       \* addresses one of them resolves to

VARIABLES program,   \* "server" or "client"
          pc,        \* "config", "opening", "running", "closing", "exited", "killed"
          binds,     \* the addresses to listen on
          asked,     \* what the configuration and the plugin host asked for
          built,     \* parts of the plan that are there, in order
          live,      \* parts not destroyed yet
          fds,       \* parts that hold a descriptor, registered with the reactor
          masked,    \* SIGINT and SIGTERM are blocked
          pending,   \* one of them is waiting to be read
          busy,      \* a connection was accepted: the parts use each other
          uploaded,  \* the last upload has run
          code       \* exit code, "none" before

svars == <<program, pc, binds, asked, built, live, fds, masked, pending, busy, uploaded, code>>

AnyAddr == "any"                   \* ":port" for the plugin host's port
Wildcards == {"v4any", "v6any"}
Canonical == Addrs \cup Wildcards \cup {AnyAddr}

(* bind_list_dedupe: the first of equal addresses stays. *)
Dedupe(list) ==
    FoldLeft(LAMBDA out, a : IF a \in Range(out) THEN out ELSE Append(out, a), << >>, list)

(* merge_ss_bind_addr: the plugin host's address joins the list unless an  *)
(* entry covers it already; a wildcard of one family gives way to ":port". *)
MergeSsBindAddr(list, ss) ==
    LET widened == [i \in DOMAIN list |->
                      IF list[i] \in Wildcards /\ ss = AnyAddr THEN AnyAddr ELSE list[i]]
        covered == \E i \in DOMAIN list : list[i] \in {ss, AnyAddr} \/ widened[i] # list[i]
    IN IF covered THEN widened ELSE Append(widened, ss)

(* build_config's bind list; plugin is the plugin host's address, << >> in *)
(* standalone mode.                                                        *)
BindList(list, plugin) ==
    Dedupe(IF plugin # << >> THEN MergeSsBindAddr(list, plugin[1])
           ELSE IF list = << >> THEN <<"443", "80">> ELSE list)

(* bind_list_append refuses to go beyond the table. *)
TooMany(list, plugin) ==
    \/ Len(list) > MAX_BIND
    \/ plugin # << >> /\ Len(MergeSsBindAddr(list, plugin[1])) > MAX_BIND

(* The parts in the order cloak_server_stack_open builds them, each after  *)
(* its checks; "checks" stands for the arguments, the bind count, the      *)
(* session template's probe and the retry ladder, which leave nothing.     *)
Listeners(n) == [i \in 1 .. n |-> <<"listener", i>>]
Part(name) == <<name, 0>>
Plan ==
    <<Part("reactor")>> \o
    (IF program = "client" THEN <<Part("client_stack")>>
     ELSE <<Part("checks"), Part("srv"), Part("mgr"), Part("registry"), Part("panel"),
            Part("api"), Part("proxy"), Part("dispatcher")>> \o Listeners(Len(binds)))
    \o <<Part("signals")>>

(* A close with the registry ahead of those whose relays use its sessions. *)
CloseRegistryEarly ==
    <<Part("signals")>> \o Reverse(Listeners(Len(binds))) \o
    <<Part("dispatcher"), Part("registry"), Part("proxy"), Part("api"), Part("panel"),
      Part("mgr"), Part("srv"), Part("client_stack"), Part("reactor")>>

(* cloak_server_stack_close, then cloak_reactor_destroy; the signal        *)
(* descriptor goes first where it was made.                                *)
CloseOrder ==
    <<Part("signals")>> \o Reverse(Listeners(Len(binds))) \o
    <<Part("dispatcher"), Part("proxy"), Part("api"), Part("registry"), Part("panel"),
      Part("mgr"), Part("srv"), Part("client_stack"), Part("reactor")>>

(* What a part's destruction, and its callbacks until then, reach into     *)
(* once connections were accepted.                                         *)
Uses(p) ==
    CASE p[1] = "listener"   -> {Part("dispatcher"), Part("reactor")}
      [] p[1] = "dispatcher" -> {Part("srv"), Part("registry"), Part("panel"), Part("proxy"), Part("api")}
      [] p[1] = "proxy"      -> {Part("registry"), Part("srv")}
      [] p[1] = "api"        -> {Part("registry"), Part("mgr")}
      [] p[1] = "registry"   -> {Part("panel"), Part("reactor")}
      [] p[1] = "panel"      -> {Part("mgr"), Part("reactor")}
      [] p[1] = "client_stack" -> {Part("reactor")}
      [] OTHER -> {}

(* The exit codes a failing part may lead to: both programs'               *)
(* exit_code_for_stack_err, and main's own.                                *)
ExitCodes(p) ==
    CASE p[1] = "checks" -> {"config", "runtime"}
      [] p[1] \in {"srv", "mgr"} -> {"config"}
      [] p[1] = "listener" -> {"bind"}
      [] p[1] = "client_stack" -> {"config", "bind", "runtime"}
      [] OTHER -> {"runtime"}

SInit ==
    /\ program \in {"server", "client"}
    /\ pc = "config" /\ binds = << >> /\ asked = {}
    /\ built = 0 /\ live = {} /\ fds = {}
    /\ masked = FALSE /\ pending = FALSE /\ busy = FALSE /\ uploaded = FALSE
    /\ code = "none"

(* main asked for its version or a key, or given something it cannot use:  *)
(* it returns before there is anything to take down.                       *)
ExitEarly ==
    /\ pc = "config"
    /\ pc' = "exited"
    /\ code' \in {"ok", "usage", "config", "runtime"}
    /\ UNCHANGED <<program, binds, asked, built, live, fds, masked, pending, busy, uploaded>>

(* main up to the reactor: a usable configuration, but for its bind list.  *)
Configure(list, plugin) ==
    /\ pc = "config"
    /\ IF program = "server" /\ TooMany(list, plugin)
       THEN pc' = "exited" /\ code' = "config" /\ UNCHANGED <<binds, asked>>
       ELSE /\ pc' = "opening" /\ UNCHANGED code
            /\ binds' = IF program = "server" THEN BindList(list, plugin) ELSE << >>
            /\ asked' = IF program = "server" THEN Range(list) \cup Range(plugin) ELSE {}
    /\ UNCHANGED <<program, built, live, fds, masked, pending, busy, uploaded>>

(* The loop of cloak_listener_open over the resolved addresses: a socket   *)
(* that cannot be made, bound, listened on or named is closed and the next *)
(* address tried; one that the reactor refuses ends it.                    *)
ListenerOpen(tries, watched) ==
    watched /\ \E i \in DOMAIN tries : tries[i] = "ok"

Tries == UNION {[1 .. n -> {"socket", "bind", "listen", "port", "ok"}] : n \in 0 .. MaxAddrs}

(* The next part of the plan is built. *)
OpenPart ==
    LET p == Plan[built + 1]
    IN /\ pc = "opening" /\ built < Len(Plan)
       /\ p[1] = "listener" => \E tries \in Tries : ListenerOpen(tries, TRUE)
       /\ built' = built + 1
       /\ live' = IF p[1] = "checks" THEN live ELSE live \cup {p}
       /\ fds' = IF p[1] \in {"listener", "signals"} THEN fds \cup {p} ELSE fds
       /\ masked' = (masked \/ p[1] = "signals")
       /\ pc' = IF built' = Len(Plan) THEN "running" ELSE "opening"
       /\ UNCHANGED <<program, binds, asked, pending, busy, uploaded, code>>

(* It is not: cloak_signalfd_create restores the mask, cloak_listener_open *)
(* closes its socket, and everything before is closed.                     *)
OpenFails ==
    LET p == Plan[built + 1]
    IN /\ pc = "opening" /\ built < Len(Plan)
       /\ p[1] = "listener" =>
            \E tries \in Tries, watched \in BOOLEAN : ~ ListenerOpen(tries, watched)
       /\ code' \in ExitCodes(p)
       /\ pc' = "closing"
       /\ UNCHANGED <<program, binds, asked, built, live, fds, masked, pending, busy, uploaded>>

(* The loop runs: a listener's connection makes the parts know each other. *)
Accept ==
    /\ pc = "running" /\ \E i \in 1 .. Len(binds) : <<"listener", i>> \in fds
    /\ busy' = TRUE
    /\ UNCHANGED <<program, pc, binds, asked, built, live, fds, masked, pending, uploaded, code>>

(* A signal is blocked and waits on the descriptor. *)
Signal ==
    /\ pc \in {"running", "closing"} /\ masked
    /\ pending' = TRUE
    /\ UNCHANGED <<program, pc, binds, asked, built, live, fds, masked, busy, uploaded, code>>

(* on_signal_readable reads what waits; on_signal stops the reactor.       *)
Stop ==
    /\ pc = "running" /\ pending
    /\ pending' = FALSE
    /\ pc' = "closing"
    /\ code' = "ok"
    /\ UNCHANGED <<program, binds, asked, built, live, fds, masked, busy, uploaded>>

(* cloak_server_stack_upload_now comes before anything is destroyed. *)
UploadNow ==
    /\ pc = "closing" /\ code = "ok" /\ program = "server" /\ ~ uploaded
    /\ uploaded' = TRUE
    /\ UNCHANGED <<program, pc, binds, asked, built, live, fds, masked, pending, busy, code>>

(* main may go on to the next destruction. *)
MayClose == code = "ok" /\ program = "server" => uploaded

(* The next part of the order that is there is destroyed.  With the signal *)
(* descriptor the old mask returns, and a signal that came since the loop  *)
(* stopped has its default effect.                                         *)
ClosePart ==
    LET left == SelectSeq(CloseOrder, LAMBDA p : p \in live)
        p == left[1]
    IN /\ pc = "closing" /\ left # << >> /\ MayClose
       /\ live' = live \ {p}
       /\ fds' = fds \ {p}
       /\ masked' = (masked /\ p[1] # "signals")
       /\ pc' = IF p[1] = "signals" /\ pending THEN "killed" ELSE pc
       /\ UNCHANGED <<program, binds, asked, built, pending, busy, uploaded, code>>

(* main returns. *)
Exit ==
    /\ pc = "closing" /\ live = {}
    /\ pc' = "exited"
    /\ UNCHANGED <<program, binds, asked, built, live, fds, masked, pending, busy, uploaded, code>>

SNext ==
    \/ \E n \in 0 .. MaxBind : \E list \in [1 .. n -> Canonical],
          plugin \in {<< >>} \cup {<<a>> : a \in Canonical} : Configure(list, plugin)
    \/ ExitEarly \/ OpenPart \/ OpenFails \/ Accept \/ Signal \/ Stop \/ UploadNow \/ ClosePart \/ Exit

(***************************************************************************)
(* Whatever fails and whenever it is told to stop, the process takes down  *)
(* what it built: no part goes before one that still reaches into it, a    *)
(* process that exits leaves no part, no descriptor and no blocked signal  *)
(* behind, and one that served and ends, even by a second signal in the    *)
(* middle of its shutdown, has uploaded its usage.                         *)
(***************************************************************************)
StopsCleanly ==
    /\ busy => \A p \in live : Uses(p) \subseteq live
    /\ pc = "exited" => live = {} /\ fds = {} /\ ~ masked
    /\ pc \in {"exited", "killed"} /\ busy => uploaded

(***************************************************************************)
(* The listeners do not get into each other's way: no address is listened  *)
(* on twice, and every address that the configuration or the plugin host   *)
(* asked for is, itself or through the wildcard that covers it.            *)
(***************************************************************************)
BindsAreApart ==
    /\ IsInjective(binds)
    /\ \A a \in asked : a \in Range(binds) \/ AnyAddr \in Range(binds)
    /\ Len(binds) <= MAX_BIND
=============================================================================
