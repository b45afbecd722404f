------------------------------ MODULE Gateway ------------------------------
(***************************************************************************)
(* The hot-reloadable runtime of internal/gateway/manager.go and the       *)
(* configuration file behind it: administrators who save configurations    *)
(* (PUT of internal/admin, ReplaceConfig), requests that run on the        *)
(* handler they entered, the dashboard (Overview), and a process that may  *)
(* crash, or drain and stop when it is told to, and load the file again.   *)
(*                                                                         *)
(* ReplaceConfig is not atomic.  It validates and builds without a lock,   *)
(* writes the file without a lock (os.WriteFile: open with O_TRUNC, then   *)
(* one write), and only then takes the lock to swap handler, pools and     *)
(* configuration.                                                          *)
(*                                                                         *)
(* Abstracted: a configuration is a value with the length of its YAML; a   *)
(* generation of handler and pools is the number of the swap or start that *)
(* installed it.  What the handler does inside is Proxy.                   *)
(***************************************************************************)
EXTENDS Naturals

CONSTANTS
    Admins,       \* concurrent PUTs of /__gateway/admin/config
    Requests,     \* concurrent requests that enter Manager.ServeHTTP
    Viewers,      \* concurrent calls of Overview
    Configs,      \* configurations that Validate accepts, with defaults filled in
    Foreign,      \* what a damaged file may happen to parse as: saved by nobody
    Size,         \* length of the YAML of each configuration
    Override,     \* applyEnvOverrides: what the environment makes of each
    FirstConfig,  \* the file at the first start
    DiskMayFail,  \* whether a save may find the file unwritable or the disk full
    MaxSwaps,     \* bound: no save begins when so many generations were installed
    MaxEnds       \* bound: crashes and signals to stop

ASSUME GatewayAssumption ==
    /\ Foreign \notin Configs
    /\ Size \in [Configs -> Nat \ {0}]
    /\ Override \in [Configs -> Configs]
    /\ \A c \in Configs : Override[Override[c]] = Override[c]
    /\ FirstConfig \in Configs
    /\ DiskMayFail \in BOOLEAN
    /\ MaxSwaps \in Nat \ {0}
    /\ MaxEnds \in Nat

VARIABLES
    up,       \* the process runs
    stop,     \* no, draining, or drained: how far main is with a signal to stop
    ends,     \* crashes and signals so far
    file,     \* the configuration file
    cfg,      \* Manager.cfg, and the generation it belongs to
    proxy,    \* Manager.proxy: its generation
    pools,    \* Manager.pools: their generation
    swaps,    \* generations installed so far
    save,     \* where each PUT is, and what it saves
    acked,    \* history: the newest generation whose save was acknowledged
    owed,     \* history: what ran when the process ended, and what was being saved
    calm,     \* history: the last save to begin overlapped no other and did not fail
    request,  \* the generation each request runs on, and acked when it entered
    view      \* what each call of Overview has read, and acked when it began

procVars == <<up, stop, ends>>
managerVars == <<cfg, proxy, pools, swaps>>
vars == <<up, stop, ends, file, cfg, proxy, pools, swaps, save, acked, owed, calm, request, view>>
-----------------------------------------------------------------------------
Longer(m, n) == IF m >= n THEN m ELSE n

\* The file begins with the YAML of config, if any; a length beyond its own is
\* the rest of something longer that was there.
Files == [config : Configs \cup {Foreign}, length : Nat]

Intact(f) == f.config \in Configs /\ f.length = Size[f.config]

Written(c) == [config |-> c, length |-> Size[c]]

Truncated == [config |-> Foreign, length |-> 0]

\* A write starts at offset 0 and cuts nothing off.
Overwritten(f, c) == [config |-> c, length |-> Longer(f.length, Size[c])]

PartlyWritten(f, n) == [config |-> Foreign, length |-> Longer(f.length, n)]

\* config.Load: the file as the environment changes it.  An empty file fails
\* validation; any other damage may or may not parse.
Loads(f) ==
    IF Intact(f) THEN {Override[f.config]}
    ELSE IF f.length = 0 THEN {}
    ELSE {Foreign}

NoSave == [pc |-> "idle", config |-> FirstConfig, generation |-> 0]
NoRequest == [on |-> 0, since |-> 0]
NoView == [pc |-> "idle", config |-> 0, pools |-> 0, since |-> 0]

\* Past the truncation, before the swap.
Saving(a) == save[a].pc \in {"write", "swap"}

Init ==
    /\ up = TRUE
    /\ stop = "no"
    /\ ends = 0
    /\ file = Written(FirstConfig)
    /\ cfg = [config |-> Override[FirstConfig], generation |-> 1]
    /\ proxy = 1
    /\ pools = 1
    /\ swaps = 1
    /\ save = [a \in Admins |-> NoSave]
    /\ acked = 1
    /\ owed = [live |-> FirstConfig, begun |-> {}]
    /\ calm = TRUE
    /\ request = [r \in Requests |-> NoRequest]
    /\ view = [v \in Viewers |-> NoView]
-----------------------------------------------------------------------------
(* A PUT: handleConfig, ReplaceConfig and config.Save. *)

\* Mutant: what does not validate is saved all the same.
PutUnvalidated(a, c) ==
    /\ up
    /\ swaps < MaxSwaps
    /\ save[a].pc = "idle"
    /\ save' = [save EXCEPT ![a] = [pc |-> "save", config |-> Foreign, generation |-> 0]]
    /\ UNCHANGED <<procVars, file, managerVars, acked, owed, calm, request, view>>

\* The body is decoded, validated and a runtime built from it; what does not
\* validate is refused before anything is shared.
Put(a, c) ==
    /\ up
    /\ swaps < MaxSwaps
    /\ save[a].pc = "idle"
    /\ save' = [save EXCEPT ![a] = [pc |-> "save", config |-> c, generation |-> 0]]
    /\ UNCHANGED <<procVars, file, managerVars, acked, owed, calm, request, view>>

\* Mutant: the file is opened without O_TRUNC.
TruncateNothing(a) ==
    /\ save[a].pc = "save"
    /\ calm' = \A b \in Admins \ {a} : ~Saving(b)
    /\ save' = [save EXCEPT ![a].pc = "write"]
    /\ UNCHANGED <<procVars, file, managerVars, acked, owed, request, view>>

\* os.WriteFile opens the file and truncates it.
Truncate(a) ==
    /\ save[a].pc = "save"
    /\ file' = Truncated
    /\ calm' = \A b \in Admins \ {a} : ~Saving(b)
    /\ save' = [save EXCEPT ![a].pc = "write"]
    /\ UNCHANGED <<procVars, managerVars, acked, owed, request, view>>

\* Mutant: the error of a save that could not open the file is dropped.
OpenFailsUnnoticed(a) ==
    /\ DiskMayFail
    /\ save[a].pc = "save"
    /\ save' = [save EXCEPT ![a].pc = "swap"]
    /\ UNCHANGED <<procVars, file, managerVars, acked, owed, calm, request, view>>

\* The file cannot be opened: the save is refused and nothing has changed.
OpenFails(a) ==
    /\ DiskMayFail
    /\ save[a].pc = "save"
    /\ save' = [save EXCEPT ![a] = NoSave]
    /\ UNCHANGED <<procVars, file, managerVars, acked, owed, calm, request, view>>

Write(a) ==
    /\ save[a].pc = "write"
    /\ file' = Overwritten(file, save[a].config)
    /\ save' = [save EXCEPT ![a].pc = "swap"]
    /\ UNCHANGED <<procVars, managerVars, acked, owed, calm, request, view>>

\* The disk is full: the save is refused, the file stays as far as it got.
WriteFails(a) ==
    /\ DiskMayFail
    /\ save[a].pc = "write"
    /\ \E n \in 0..(Size[save[a].config] - 1) : file' = PartlyWritten(file, n)
    /\ calm' = FALSE
    /\ save' = [save EXCEPT ![a] = NoSave]
    /\ UNCHANGED <<procVars, managerVars, acked, owed, request, view>>

\* Mutant: the new handler is built and never installed.
SwapKeepsHandler(a) ==
    /\ save[a].pc = "swap"
    /\ swaps' = swaps + 1
    /\ cfg' = [config |-> save[a].config, generation |-> swaps']
    /\ pools' = swaps'
    /\ save' = [save EXCEPT ![a].pc = "ack", ![a].generation = swaps']
    /\ UNCHANGED <<procVars, file, proxy, acked, owed, calm, request, view>>

\* The swap, under the lock.
Swap(a) ==
    /\ save[a].pc = "swap"
    /\ swaps' = swaps + 1
    /\ cfg' = [config |-> save[a].config, generation |-> swaps']
    /\ proxy' = swaps'
    /\ pools' = swaps'
    /\ save' = [save EXCEPT ![a].pc = "ack", ![a].generation = swaps']
    /\ UNCHANGED <<procVars, file, acked, owed, calm, request, view>>

\* The answer to the PUT.
Acknowledge(a) ==
    /\ save[a].pc = "ack"
    /\ acked' = Longer(acked, save[a].generation)
    /\ save' = [save EXCEPT ![a] = NoSave]
    /\ UNCHANGED <<procVars, file, managerVars, owed, calm, request, view>>

-----------------------------------------------------------------------------
(* Manager.ServeHTTP reads the handler and runs on it to the end. *)

Enter(r) ==
    /\ up
    /\ request[r] = NoRequest
    /\ request' = [request EXCEPT ![r] = [on |-> proxy, since |-> acked]]
    /\ UNCHANGED <<procVars, file, managerVars, save, acked, owed, calm, view>>

Leave(r) ==
    /\ request[r] # NoRequest
    /\ request' = [request EXCEPT ![r] = NoRequest]
    /\ UNCHANGED <<procVars, file, managerVars, save, acked, owed, calm, view>>

(* Overview reads configuration and pools under two locks, one after the other. *)

ReadConfig(v) ==
    /\ up
    /\ view[v].pc = "idle"
    /\ view' = [view EXCEPT ![v] = [pc |-> "pools", config |-> cfg.generation, pools |-> 0, since |-> acked]]
    /\ UNCHANGED <<procVars, file, managerVars, save, acked, owed, calm, request>>

\* Mutant: the pools are those of when the call began.
ReadPoolsAtStart(v) ==
    /\ view[v].pc = "pools"
    /\ view' = [view EXCEPT ![v].pc = "done", ![v].pools = view[v].since]
    /\ UNCHANGED <<procVars, file, managerVars, save, acked, owed, calm, request>>

ReadPools(v) ==
    /\ view[v].pc = "pools"
    /\ view' = [view EXCEPT ![v].pc = "done", ![v].pools = pools]
    /\ UNCHANGED <<procVars, file, managerVars, save, acked, owed, calm, request>>

Show(v) ==
    /\ view[v].pc = "done"
    /\ view' = [view EXCEPT ![v] = NoView]
    /\ UNCHANGED <<procVars, file, managerVars, save, acked, owed, calm, request>>
-----------------------------------------------------------------------------
(* The process: main, and what ends it. *)

\* All that was in memory is gone.
Down ==
    /\ up' = FALSE
    /\ owed' = [live |-> cfg.config, begun |-> {save[a].config : a \in {b \in Admins : Saving(b)}}]
    /\ save' = [a \in Admins |-> NoSave]
    /\ request' = [r \in Requests |-> NoRequest]
    /\ view' = [v \in Viewers |-> NoView]
    /\ UNCHANGED <<file, managerVars, acked, calm>>

\* External: the process dies.
Crash ==
    /\ up
    /\ ends < MaxEnds
    /\ Down
    /\ stop' = "no"
    /\ ends' = ends + 1

\* SIGINT or SIGTERM: Shutdown closes the listener.  What was accepted before
\* still reaches its handler.
Signal ==
    /\ up
    /\ stop = "no"
    /\ ends < MaxEnds
    /\ stop' = "draining"
    /\ ends' = ends + 1
    /\ UNCHANGED <<up, file, managerVars, save, acked, owed, calm, request, view>>

\* Mutant: only proxied requests are waited for.
DrainedOfRequests ==
    /\ up
    /\ stop = "draining"
    /\ \A r \in Requests : request[r] = NoRequest
    /\ Down
    /\ stop' = "drained"
    /\ UNCHANGED ends

\* Shutdown returns when every connection is idle, and main with it.
Drained ==
    /\ up
    /\ stop = "draining"
    /\ \A r \in Requests : request[r] = NoRequest
    /\ \A a \in Admins : save[a] = NoSave
    /\ \A v \in Viewers : view[v] = NoView
    /\ Down
    /\ stop' = "drained"
    /\ UNCHANGED ends

\* Shutdown gives up after 10 seconds: main returns over what is in flight.
DeadlinePasses ==
    /\ up
    /\ stop = "draining"
    /\ Down
    /\ stop' = "no"
    /\ UNCHANGED ends

\* main: Load and New.  If the file does not load, the process exits.
Start ==
    /\ ~up
    /\ \E c \in Loads(file) : cfg' = [config |-> c, generation |-> swaps + 1]
    /\ up' = TRUE
    /\ stop' = "no"
    /\ swaps' = swaps + 1
    /\ proxy' = swaps'
    /\ pools' = swaps'
    /\ calm' = Intact(file)
    /\ UNCHANGED <<ends, file, save, acked, owed, request, view>>

Next ==
    \/ Crash \/ Signal \/ Drained \/ DeadlinePasses \/ Start
    \/ \E a \in Admins :
          \/ \E c \in Configs : Put(a, c)
          \/ Truncate(a) \/ OpenFails(a) \/ Write(a) \/ WriteFails(a)
          \/ Swap(a) \/ Acknowledge(a)
    \/ \E r \in Requests : Enter(r) \/ Leave(r)
    \/ \E v \in Viewers : ReadConfig(v) \/ ReadPools(v) \/ Show(v)

Spec == Init /\ [][Next]_vars
-----------------------------------------------------------------------------
(* Properties. *)

GatewayTypeOK ==
    /\ up \in BOOLEAN
    /\ stop \in {"no", "draining", "drained"}
    /\ ends \in Nat
    /\ file \in Files
    /\ cfg \in [config : Configs \cup {Foreign}, generation : Nat]
    /\ proxy \in Nat
    /\ pools \in Nat
    /\ swaps \in Nat
    /\ save \in [Admins -> [pc : {"idle", "save", "write", "swap", "ack"},
                           config : Configs, generation : Nat]]
    /\ acked \in Nat
    /\ owed \in [live : Configs \cup {Foreign}, begun : SUBSET Configs]
    /\ calm \in BOOLEAN
    /\ request \in [Requests -> [on : Nat, since : Nat]]
    /\ view \in [Viewers -> [pc : {"idle", "pools", "done"}, config : Nat,
                            pools : Nat, since : Nat]]

\* An acknowledged save is live: a request that comes after the answer never
\* runs on the handler of an earlier configuration.
AcknowledgedIsLive == \A r \in Requests : request[r].on >= request[r].since

\* The dashboard never pairs a configuration with older pools, nor shows what an
\* acknowledged save had replaced before the call.
ViewInOrder ==
    \A v \in Viewers : view[v].pc = "done" =>
        view[v].since <= view[v].config /\ view[v].config <= view[v].pools

\* Between saves the file holds the configuration that runs (as it was saved,
\* or before the environment changed it), if the last save was alone and whole.
FileMatchesRunning ==
    (up /\ calm /\ \A a \in Admins : ~Saving(a)) =>
        Intact(file) /\ cfg.config \in {file.config, Override[file.config]}

\* A crash between saves costs nothing, a crash during a save at most what was
\* being saved or what ran before: no start brings back anything else.
CrashKeepsConfig ==
    (~up /\ calm) =>
        /\ Loads(file) \subseteq {Override[c] : c \in ({owed.live} \cap Configs) \cup owed.begun}
        /\ owed.begun = {} => Loads(file) # {}

\* Stopping a gateway that was told to stop and drained in time changes nothing:
\* the next start runs what ran, unless saves overlapped or failed.
DrainedRestartsTheSame ==
    (~up /\ calm /\ stop = "drained") => Loads(file) = {Override[owed.live]}

\* manager.go:79 and the console's message: what was saved is what runs.
SavedIsRunning ==
    (up /\ \A a \in Admins : save[a].pc = "idle") =>
        cfg.config \in {file.config, Override[file.config]}
=============================================================================
