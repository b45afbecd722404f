--------------------------- MODULE GatewayProofs ---------------------------
(***************************************************************************)
(* What holds of the hot-reloadable runtime for any number of              *)
(* administrators, requests, viewers and reloads, and any configurations.  *)
(* Two inductive invariants beside the types: GenerationsInOrder, of what  *)
(* is in memory, and SavesInOrder, of the file.                            *)
(***************************************************************************)
EXTENDS Gateway, TLAPS

PutStep(a) ==
    \/ \E c \in Configs : Put(a, c)
    \/ Truncate(a) \/ OpenFails(a) \/ Write(a) \/ WriteFails(a)
    \/ Swap(a) \/ Acknowledge(a)
RequestStep(r) == Enter(r) \/ Leave(r)
ProcessEnds == Crash \/ Drained \/ DeadlinePasses
ViewStep(v) == ReadConfig(v) \/ ReadPools(v) \/ Show(v)

\* Next, by who moves.
LEMMA StepsOfNext ==
    ASSUME [Next]_vars
    PROVE  \/ UNCHANGED vars
           \/ ProcessEnds
           \/ Signal
           \/ Start
           \/ \E a \in Admins : PutStep(a)
           \/ \E r \in Requests : RequestStep(r)
           \/ \E v \in Viewers : ViewStep(v)
BY DEF Next, PutStep, RequestStep, ProcessEnds, ViewStep
-----------------------------------------------------------------------------
(* Types. *)

\* However the process ends, its memory is gone and nothing else has changed.
LEMMA EndsDown ==
    ASSUME ProcessEnds
    PROVE  up /\ Down /\ stop' \in {"no", "drained"} /\ ends' \in {ends, ends + 1}
BY DEF ProcessEnds, Crash, Drained, DeadlinePasses

LEMMA LongerIsLonger ==
    ASSUME NEW m \in Nat, NEW n \in Nat
    PROVE  Longer(m, n) \in Nat /\ Longer(m, n) >= m /\ Longer(m, n) >= n
           /\ (Longer(m, n) = m \/ Longer(m, n) = n)
BY DEF Longer

\* A file that loads gives a configuration, or what the damage parsed as.
LEMMA LoadsType ==
    ASSUME NEW f \in Files, NEW c \in Loads(f)
    PROVE  c \in Configs \cup {Foreign}
BY GatewayAssumption DEF Loads, Files, Intact

\* What a view has read stays of its type.
LEMMA PoolsRead ==
    ASSUME NEW S, NEW v \in S, NEW n \in Nat,
           NEW f \in [S -> [pc : {"idle", "pools", "done"}, config : Nat, pools : Nat, since : Nat]]
    PROVE  [f EXCEPT ![v].pc = "done", ![v].pools = n]
              \in [S -> [pc : {"idle", "pools", "done"}, config : Nat, pools : Nat, since : Nat]]
OBVIOUS

\* Typing is preserved by every action.
LEMMA TypeStep ==
    ASSUME GatewayTypeOK, [Next]_vars
    PROVE  GatewayTypeOK'
<1>. USE DEF GatewayTypeOK
<1>1. CASE UNCHANGED vars
  BY <1>1 DEF vars, procVars, managerVars
<1>2. CASE ProcessEnds
  <2>1. owed' \in [live : Configs \cup {Foreign}, begun : SUBSET Configs]
    <3>1. {save[a].config : a \in {b \in Admins : Saving(b)}} \in SUBSET Configs
      OBVIOUS
    <3>. QED
      BY <1>2, <3>1, EndsDown DEF Down
  <2>2. save' \in [Admins -> [pc : {"idle", "save", "write", "swap", "ack"},
                             config : Configs, generation : Nat]]
    BY <1>2, EndsDown, GatewayAssumption DEF Down, NoSave
  <2>3. /\ request' \in [Requests -> [on : Nat, since : Nat]]
        /\ view' \in [Viewers -> [pc : {"idle", "pools", "done"}, config : Nat,
                                 pools : Nat, since : Nat]]
    BY <1>2, EndsDown DEF Down, NoRequest, NoView
  <2>4. up' = FALSE /\ UNCHANGED <<file, managerVars, acked, calm>>
    BY <1>2, EndsDown, Zenon DEF Down
  <2>5. stop' \in {"no", "draining", "drained"} /\ ends' \in Nat
    BY <1>2, EndsDown
  <2>. QED
    BY <2>1, <2>2, <2>3, <2>4, <2>5 DEF procVars, managerVars
<1>3. CASE Start
  <2>1. PICK c \in Loads(file) : cfg' = [config |-> c, generation |-> swaps + 1]
    BY <1>3 DEF Start
  <2>2. c \in Configs \cup {Foreign}
    BY LoadsType
  <2>3. calm' \in BOOLEAN
    BY <1>3 DEF Start, Intact
  <2>. QED
    BY <1>3, <2>1, <2>2, <2>3 DEF Start
<1>4. ASSUME NEW a \in Admins, PutStep(a)
      PROVE  GatewayTypeOK'
  <2>1. ASSUME NEW c \in Configs, Put(a, c)
        PROVE  GatewayTypeOK'
    BY <2>1 DEF Put, procVars, managerVars
  <2>2. CASE Truncate(a)
    <3>1. file' \in Files
      BY <2>2 DEF Truncate, Truncated, Files
    <3>2. calm' \in BOOLEAN
      BY <2>2 DEF Truncate
    <3>. QED
      BY <2>2, <3>1, <3>2 DEF Truncate, procVars, managerVars
  <2>3. CASE OpenFails(a)
    BY <2>3, GatewayAssumption DEF OpenFails, procVars, managerVars, NoSave
  <2>4. CASE Write(a)
    <3>1. file' \in Files
      BY <2>4, LongerIsLonger, GatewayAssumption DEF Write, Overwritten, Files
    <3>. QED
      BY <2>4, <3>1 DEF Write, procVars, managerVars
  <2>5. CASE WriteFails(a)
    <3>1. PICK n \in 0..(Size[save[a].config] - 1) : file' = PartlyWritten(file, n)
      BY <2>5 DEF WriteFails
    <3>2. file' \in Files
      BY <3>1, LongerIsLonger, GatewayAssumption DEF PartlyWritten, Files
    <3>. QED
      BY <2>5, <3>2, GatewayAssumption DEF WriteFails, procVars, managerVars, NoSave
  <2>6. CASE Swap(a)
    <3>1. swaps' \in Nat
      BY <2>6 DEF Swap
    <3>2. save' \in [Admins -> [pc : {"idle", "save", "write", "swap", "ack"},
                               config : Configs, generation : Nat]]
      <4>1. save' = [save EXCEPT ![a].pc = "ack", ![a].generation = swaps']
        BY <2>6, Zenon DEF Swap
      <4>. DEFINE acking == [save EXCEPT ![a].pc = "ack"]
      <4>2. acking \in [Admins -> [pc : {"idle", "save", "write", "swap", "ack"},
                                 config : Configs, generation : Nat]]
        OBVIOUS
      <4>3. save' = [acking EXCEPT ![a].generation = swaps']
        BY <4>1
      <4>. HIDE DEF acking
      <4>. QED
        BY <3>1, <4>2, <4>3
    <3>3. cfg' \in [config : Configs \cup {Foreign}, generation : Nat]
      BY <2>6, <3>1 DEF Swap
    <3>4. proxy' = swaps' /\ pools' = swaps'
          /\ UNCHANGED <<procVars, file, acked, owed, calm, request, view>>
      BY <2>6, Zenon DEF Swap
    <3>. QED
      BY <3>1, <3>2, <3>3, <3>4 DEF procVars
  <2>7. CASE Acknowledge(a)
    BY <2>7, LongerIsLonger, GatewayAssumption DEF Acknowledge, procVars, managerVars, NoSave
  <2>. QED
    BY <1>4, <2>1, <2>2, <2>3, <2>4, <2>5, <2>6, <2>7 DEF PutStep
<1>5. ASSUME NEW r \in Requests, RequestStep(r)
      PROVE  GatewayTypeOK'
  BY <1>5 DEF RequestStep, Enter, Leave, procVars, managerVars, NoRequest
<1>6. ASSUME NEW v \in Viewers, ViewStep(v)
      PROVE  GatewayTypeOK'
  <2>1. CASE ReadConfig(v)
    BY <2>1 DEF ReadConfig, procVars, managerVars
  <2>2. CASE ReadPools(v)
    <3>1. view' = [view EXCEPT ![v].pc = "done", ![v].pools = pools]
          /\ UNCHANGED <<procVars, file, managerVars, save, acked, owed, calm, request>>
      BY <2>2, Zenon DEF ReadPools
    <3>2. view' \in [Viewers -> [pc : {"idle", "pools", "done"}, config : Nat,
                                pools : Nat, since : Nat]]
      BY <3>1, PoolsRead
    <3>. QED
      BY <3>1, <3>2 DEF procVars, managerVars
  <2>3. CASE Show(v)
    BY <2>3 DEF Show, procVars, managerVars, NoView
  <2>. QED
    BY <1>6, <2>1, <2>2, <2>3 DEF ViewStep
<1>7. CASE Signal
  BY <1>7 DEF Signal, managerVars
<1>. QED
  BY <1>1, <1>2, <1>3, <1>4, <1>5, <1>6, <1>7, StepsOfNext

LEMMA TypeInit ==
    ASSUME Init
    PROVE  GatewayTypeOK
BY GatewayAssumption DEF Init, GatewayTypeOK, Written, Files, NoSave, NoRequest, NoView

\* Every variable of the runtime keeps its type.
THEOREM GatewayTypes == Spec => []GatewayTypeOK
<1>1. Init => GatewayTypeOK
  BY TypeInit
<1>2. GatewayTypeOK /\ [Next]_vars => GatewayTypeOK'
  BY TypeStep
<1>. QED
  BY <1>1, <1>2, PTL DEF Spec
-----------------------------------------------------------------------------
(* What is in memory: handler, pools and configuration are of one generation, *)
(* the newest, and nothing that was read or acknowledged is newer.            *)

GenerationsInOrder ==
    /\ cfg.generation = swaps /\ proxy = swaps /\ pools = swaps
    /\ acked <= swaps
    /\ \A a \in Admins : save[a].generation <= swaps
    /\ \A r \in Requests : request[r].since <= request[r].on
    /\ \A v \in Viewers :
          /\ view[v].pc # "idle" => view[v].since <= view[v].config /\ view[v].config <= swaps
          /\ view[v].pc = "done" => view[v].config <= view[v].pools

LEMMA GenerationsInit ==
    ASSUME Init
    PROVE  GenerationsInOrder
BY DEF Init, GenerationsInOrder, NoSave, NoRequest, NoView

LEMMA GenerationsStep ==
    ASSUME GatewayTypeOK, GenerationsInOrder, [Next]_vars
    PROVE  GenerationsInOrder'
<1>. USE DEF GenerationsInOrder
<1>1. CASE UNCHANGED vars
  BY <1>1 DEF vars, procVars, managerVars
<1>2. CASE ProcessEnds
  BY <1>2, EndsDown DEF Down, managerVars, NoSave, NoRequest, NoView, GatewayTypeOK
<1>3. CASE Start
  BY <1>3 DEF Start, GatewayTypeOK
<1>4. ASSUME NEW a \in Admins, PutStep(a)
      PROVE  GenerationsInOrder'
  <2>1. ASSUME NEW c \in Configs, Put(a, c)
        PROVE  GenerationsInOrder'
    BY <2>1 DEF Put, procVars, managerVars, GatewayTypeOK
  <2>2. CASE Truncate(a) \/ OpenFails(a) \/ Write(a) \/ WriteFails(a)
    <3>1. \A b \in Admins : save'[b].generation <= swaps
      <4>1. CASE Truncate(a)
        BY <4>1 DEF Truncate, GatewayTypeOK
      <4>2. CASE OpenFails(a)
        BY <4>2 DEF OpenFails, NoSave, GatewayTypeOK
      <4>3. CASE Write(a)
        BY <4>3 DEF Write, GatewayTypeOK
      <4>4. CASE WriteFails(a)
        BY <4>4 DEF WriteFails, NoSave, GatewayTypeOK
      <4>. QED
        BY <2>2, <4>1, <4>2, <4>3, <4>4
    <3>2. UNCHANGED <<cfg, proxy, pools, swaps, acked, request, view>>
      BY <2>2 DEF Truncate, OpenFails, Write, WriteFails, procVars, managerVars
    <3>. QED
      BY <3>1, <3>2
  <2>3. CASE Swap(a)
    BY <2>3 DEF Swap, GatewayTypeOK
  <2>4. CASE Acknowledge(a)
    <3>1. save[a].generation <= swaps /\ acked <= swaps
      OBVIOUS
    <3>2. acked' = Longer(acked, save[a].generation)
      BY <2>4 DEF Acknowledge
    <3>3. acked' <= swaps
      BY <3>1, <3>2 DEF Longer
    <3>. QED
      BY <2>4, <3>3 DEF Acknowledge, procVars, managerVars, NoSave, GatewayTypeOK
  <2>. QED
    BY <1>4, <2>1, <2>2, <2>3, <2>4 DEF PutStep
<1>5. ASSUME NEW r \in Requests, RequestStep(r)
      PROVE  GenerationsInOrder'
  BY <1>5 DEF RequestStep, Enter, Leave, procVars, managerVars, NoRequest, GatewayTypeOK
<1>6. ASSUME NEW v \in Viewers, ViewStep(v)
      PROVE  GenerationsInOrder'
  <2>1. UNCHANGED <<cfg, proxy, pools, swaps, save, acked, request>>
    BY <1>6 DEF ViewStep, ReadConfig, ReadPools, Show, managerVars
  <2>2. /\ view'[v].pc # "idle" => view'[v].since <= view'[v].config /\ view'[v].config <= swaps
        /\ view'[v].pc = "done" => view'[v].config <= view'[v].pools
        /\ \A w \in Viewers \ {v} : view'[w] = view[w]
    <3>1. CASE ReadConfig(v)
      BY <3>1 DEF ReadConfig, GatewayTypeOK
    <3>2. CASE ReadPools(v)
      BY <3>2 DEF ReadPools, GatewayTypeOK
    <3>3. CASE Show(v)
      BY <3>3 DEF Show, NoView, GatewayTypeOK
    <3>. QED
      BY <1>6, <3>1, <3>2, <3>3 DEF ViewStep
  <2>. QED
    BY <2>1, <2>2
<1>7. CASE Signal
  BY <1>7 DEF Signal, managerVars
<1>. QED
  BY <1>1, <1>2, <1>3, <1>4, <1>5, <1>6, <1>7, StepsOfNext

LEMMA GenerationsInvariant == Spec => []GenerationsInOrder
<1>1. Init => GenerationsInOrder
  BY GenerationsInit
<1>2. GatewayTypeOK /\ GenerationsInOrder /\ [Next]_vars => GenerationsInOrder'
  BY GenerationsStep
<1>. QED
  BY <1>1, <1>2, GatewayTypes, PTL DEF Spec

\* A request that enters after a save was acknowledged runs on that save or on
\* a later one, also across crashes.
THEOREM AcknowledgedSavesAreLive == Spec => []AcknowledgedIsLive
<1>1. GatewayTypeOK /\ GenerationsInOrder => AcknowledgedIsLive
  BY DEF GenerationsInOrder, AcknowledgedIsLive, GatewayTypeOK
<1>. QED
  BY <1>1, GatewayTypes, GenerationsInvariant, PTL

\* The two locks of the dashboard are taken in the order that makes its pools at
\* least as new as its configuration, and neither older than the call.
THEOREM ViewsAreInOrder == Spec => []ViewInOrder
<1>1. GenerationsInOrder => ViewInOrder
  BY DEF GenerationsInOrder, ViewInOrder
<1>. QED
  BY <1>1, GenerationsInvariant, PTL
-----------------------------------------------------------------------------
(* The file.  While one save runs alone, the file is exactly as far as that *)
(* save is; the crash that ends it leaves that behind.                      *)

NoneSaving == \A a \in Admins : ~Saving(a)

\* c is what runs when the file holds f, saved or loaded.
RunsAs(c, f) == Intact(f) /\ c \in {f.config, Override[f.config]}

SavesInOrder ==
    /\ ~up => \A a \in Admins : save[a] = NoSave
    /\ (calm /\ up /\ NoneSaving) => RunsAs(cfg.config, file)
    /\ calm => \A a \in Admins : Saving(a) =>
          /\ \A b \in Admins : Saving(b) => b = a
          /\ save[a].pc = "write" => file = Truncated
          /\ save[a].pc = "swap" => file = Written(save[a].config)
    /\ (calm /\ ~up) =>
          \/ owed.begun = {} /\ RunsAs(owed.live, file)
          \/ \E c \in Configs : owed.begun = {c} /\ file \in {Truncated, Written(c)}

LEMMA WrittenIsIntact ==
    ASSUME NEW c \in Configs
    PROVE  Intact(Written(c)) /\ Written(c).config = c /\ Written(c).length > 0
BY GatewayAssumption DEF Intact, Written

\* A whole write over an empty file is the file that Save meant to leave.
LEMMA WrittenOnEmpty ==
    ASSUME NEW c \in Configs
    PROVE  Overwritten(Truncated, c) = Written(c)
BY GatewayAssumption DEF Overwritten, Truncated, Written, Longer

LEMMA SavesInit ==
    ASSUME Init
    PROVE  SavesInOrder
<1>1. NoneSaving /\ up
  BY DEF Init, NoneSaving, Saving, NoSave
<1>2. RunsAs(cfg.config, file)
  BY WrittenIsIntact, GatewayAssumption DEF Init, RunsAs
<1>. QED
  BY <1>1, <1>2 DEF SavesInOrder, NoneSaving

LEMMA SavesStep ==
    ASSUME GatewayTypeOK, SavesInOrder, [Next]_vars
    PROVE  SavesInOrder'
<1>1. CASE UNCHANGED vars
  BY <1>1 DEF vars, procVars, managerVars, SavesInOrder, NoneSaving, Saving, RunsAs, Intact
<1>2. CASE ProcessEnds
  <2>1. ~up' /\ (\A a \in Admins : save'[a] = NoSave) /\ UNCHANGED <<file, cfg, calm>>
    BY <1>2, EndsDown DEF Down, managerVars
  <2>2. up
    BY <1>2, EndsDown DEF Down
  <2>3. owed'.live = cfg.config
        /\ owed'.begun = {save[a].config : a \in {b \in Admins : Saving(b)}}
    BY <1>2, EndsDown DEF Down
  <2>4. \A a \in Admins : ~Saving(a)'
    BY <2>1 DEF Saving, NoSave
  <2>5. ASSUME calm, NoneSaving
        PROVE  owed'.begun = {} /\ RunsAs(owed'.live, file')
    <3>1. RunsAs(cfg.config, file)
      BY <2>2, <2>5 DEF SavesInOrder
    <3>. QED
      BY <2>1, <2>3, <2>5, <3>1 DEF NoneSaving
  <2>6. ASSUME calm, ~NoneSaving
        PROVE  \E c \in Configs : owed'.begun = {c} /\ file' \in {Truncated, Written(c)}
    <3>1. PICK a \in Admins : Saving(a)
      BY <2>6 DEF NoneSaving
    <3>2. \A b \in Admins : Saving(b) => b = a
      BY <2>6, <3>1 DEF SavesInOrder
    <3>3. owed'.begun = {save[a].config}
      BY <2>3, <3>1, <3>2
    <3>4. file \in {Truncated, Written(save[a].config)}
      BY <2>6, <3>1 DEF SavesInOrder, Saving
    <3>5. save[a].config \in Configs
      BY DEF GatewayTypeOK
    <3>. QED
      BY <2>1, <3>3, <3>4, <3>5
  <2>. QED
    BY <2>1, <2>4, <2>5, <2>6 DEF SavesInOrder, RunsAs, Intact
<1>3. CASE Start
  <2>1. PICK c \in Loads(file) : cfg' = [config |-> c, generation |-> swaps + 1]
    BY <1>3 DEF Start
  <2>2. up' /\ calm' = Intact(file) /\ UNCHANGED <<file, save>>
    BY <1>3 DEF Start
  <2>3. \A a \in Admins : ~Saving(a)'
    BY <1>3, <2>2 DEF Start, SavesInOrder, Saving, NoSave
  <2>4. Intact(file) => c = Override[file.config]
    BY DEF Loads
  <2>5. calm' => RunsAs(cfg'.config, file')
    BY <2>1, <2>2, <2>4 DEF RunsAs
  <2>. QED
    BY <2>2, <2>3, <2>5 DEF SavesInOrder, RunsAs, Intact
<1>4. ASSUME NEW a \in Admins, PutStep(a)
      PROVE  SavesInOrder'
  <2>1. ASSUME NEW c \in Configs, Put(a, c)
        PROVE  SavesInOrder'
    <3>1. \A b \in Admins : Saving(b)' = Saving(b) /\ (Saving(b) => save'[b] = save[b])
      BY <2>1 DEF Put, Saving, GatewayTypeOK
    <3>2. up' /\ up /\ UNCHANGED <<file, cfg, calm>>
      BY <2>1 DEF Put, procVars, managerVars
    <3>. QED
      BY <3>1, <3>2 DEF SavesInOrder, NoneSaving, RunsAs, Intact
  <2>2. CASE Truncate(a)
    <3>1. file' = Truncated /\ save'[a].pc = "write" /\ save[a].pc = "save"
          /\ (\A b \in Admins \ {a} : save'[b] = save[b])
          /\ calm' = (\A b \in Admins \ {a} : ~Saving(b)) /\ UNCHANGED up
      BY <2>2 DEF procVars, Truncate, GatewayTypeOK
    <3>2. up
      BY <3>1 DEF SavesInOrder, NoSave
    <3>3. Saving(a)' /\ ~NoneSaving'
      BY <3>1 DEF Saving, NoneSaving
    <3>4. calm' => \A b \in Admins : Saving(b)' => b = a
      BY <3>1 DEF Saving
    <3>. QED
      BY <3>1, <3>2, <3>3, <3>4 DEF SavesInOrder
  <2>3. CASE OpenFails(a)
    <3>1. \A b \in Admins : Saving(b)' = Saving(b) /\ (Saving(b) => save'[b] = save[b])
      BY <2>3 DEF OpenFails, Saving, NoSave, GatewayTypeOK
    <3>2. UNCHANGED <<up, file, cfg, calm>>
      BY <2>3 DEF OpenFails, procVars, managerVars
    <3>3. up
      BY <2>3 DEF OpenFails, SavesInOrder, NoSave
    <3>. QED
      BY <3>1, <3>2, <3>3 DEF SavesInOrder, NoneSaving, RunsAs, Intact
  <2>4. CASE Write(a)
    <3>1. save[a].pc = "write" /\ save'[a].pc = "swap" /\ save'[a].config = save[a].config
          /\ (\A b \in Admins \ {a} : save'[b] = save[b])
          /\ file' = Overwritten(file, save[a].config) /\ UNCHANGED <<up, calm>>
      BY <2>4 DEF procVars, Write, GatewayTypeOK
    <3>2. up
      BY <3>1 DEF SavesInOrder, NoSave
    <3>3. Saving(a) /\ Saving(a)' /\ ~NoneSaving'
      BY <3>1 DEF Saving, NoneSaving
    <3>4. ASSUME calm
          PROVE  file' = Written(save'[a].config)
      <4>1. file = Truncated
        BY <3>1, <3>3, <3>4 DEF SavesInOrder
      <4>2. save[a].config \in Configs
        BY DEF GatewayTypeOK
      <4>. QED
        BY <3>1, <4>1, <4>2, WrittenOnEmpty
    <3>5. calm => \A b \in Admins : Saving(b)' => b = a
      BY <3>1, <3>3 DEF SavesInOrder, Saving
    <3>. QED
      BY <3>1, <3>2, <3>3, <3>4, <3>5 DEF SavesInOrder
  <2>5. CASE WriteFails(a)
    <3>1. ~calm' /\ UNCHANGED up /\ save[a].pc = "write"
      BY <2>5 DEF procVars, WriteFails
    <3>2. up
      BY <3>1 DEF SavesInOrder, NoSave
    <3>. QED
      BY <3>1, <3>2 DEF SavesInOrder
  <2>6. CASE Swap(a)
    <3>1. save[a].pc = "swap" /\ save'[a].pc = "ack" /\ cfg'.config = save[a].config
          /\ (\A b \in Admins \ {a} : save'[b] = save[b]) /\ UNCHANGED <<up, calm, file>>
      BY <2>6 DEF procVars, Swap, GatewayTypeOK
    <3>2. up
      BY <3>1 DEF SavesInOrder, NoSave
    <3>3. Saving(a)
      BY <3>1 DEF Saving
    <3>4. ASSUME calm
          PROVE  (\A b \in Admins : ~Saving(b)') /\ RunsAs(cfg'.config, file')
      <4>1. file = Written(save[a].config) /\ \A b \in Admins : Saving(b) => b = a
        BY <3>1, <3>3, <3>4 DEF SavesInOrder
      <4>2. save[a].config \in Configs
        BY DEF GatewayTypeOK
      <4>3. \A b \in Admins : ~Saving(b)'
        BY <3>1, <4>1 DEF Saving
      <4>. QED
        BY <3>1, <4>1, <4>2, <4>3, WrittenIsIntact DEF RunsAs
    <3>. QED
      BY <3>1, <3>2, <3>4 DEF SavesInOrder, RunsAs, Intact
  <2>7. CASE Acknowledge(a)
    <3>1. \A b \in Admins : Saving(b)' = Saving(b) /\ (Saving(b) => save'[b] = save[b])
      BY <2>7 DEF Acknowledge, Saving, NoSave, GatewayTypeOK
    <3>2. UNCHANGED <<up, file, cfg, calm>>
      BY <2>7 DEF Acknowledge, procVars, managerVars
    <3>3. up
      BY <2>7 DEF Acknowledge, SavesInOrder, NoSave
    <3>. QED
      BY <3>1, <3>2, <3>3 DEF SavesInOrder, NoneSaving, RunsAs, Intact
  <2>. QED
    BY <1>4, <2>1, <2>2, <2>3, <2>4, <2>5, <2>6, <2>7 DEF PutStep
<1>5. ASSUME NEW r \in Requests, RequestStep(r)
      PROVE  SavesInOrder'
  <2>1. UNCHANGED <<up, file, cfg, save, owed, calm>>
    BY <1>5 DEF RequestStep, Enter, Leave, procVars, managerVars
  <2>. QED
    BY <2>1 DEF SavesInOrder, NoneSaving, Saving, RunsAs, Intact
<1>6. ASSUME NEW v \in Viewers, ViewStep(v)
      PROVE  SavesInOrder'
  <2>1. UNCHANGED <<up, file, cfg, save, owed, calm>>
    BY <1>6 DEF ViewStep, ReadConfig, ReadPools, Show, procVars, managerVars
  <2>. QED
    BY <2>1 DEF SavesInOrder, NoneSaving, Saving, RunsAs, Intact
<1>7. CASE Signal
  <2>1. UNCHANGED <<up, file, cfg, save, owed, calm>>
    BY <1>7 DEF Signal, managerVars
  <2>. QED
    BY <2>1 DEF SavesInOrder, NoneSaving, Saving, RunsAs, Intact
<1>. QED
  BY <1>1, <1>2, <1>3, <1>4, <1>5, <1>6, <1>7, StepsOfNext

LEMMA SavesInvariant == Spec => []SavesInOrder
<1>1. Init => SavesInOrder
  BY SavesInit
<1>2. GatewayTypeOK /\ SavesInOrder /\ [Next]_vars => SavesInOrder'
  BY SavesStep
<1>. QED
  BY <1>1, <1>2, GatewayTypes, PTL DEF Spec

\* Between saves the file holds what runs, if the last save to begin was alone
\* and whole.
THEOREM FileIsWhatRuns == Spec => []FileMatchesRunning
<1>1. SavesInOrder => FileMatchesRunning
  BY DEF SavesInOrder, FileMatchesRunning, NoneSaving, RunsAs
<1>. QED
  BY <1>1, SavesInvariant, PTL

\* A crash leaves a file that loads as what ran or as what was being saved, or
\* that does not load; between saves it always loads.
THEOREM CrashesKeepTheConfig == Spec => []CrashKeepsConfig
<1>1. ASSUME GatewayTypeOK, SavesInOrder, ~up, calm
      PROVE  /\ Loads(file) \subseteq {Override[c] : c \in ({owed.live} \cap Configs) \cup owed.begun}
             /\ owed.begun = {} => Loads(file) # {}
  <2>1. CASE owed.begun = {} /\ RunsAs(owed.live, file)
    <3>1. Loads(file) = {Override[file.config]} /\ file.config \in Configs
      BY <2>1 DEF RunsAs, Loads, Intact
    <3>2. owed.live \in Configs /\ Override[owed.live] = Override[file.config]
      BY <2>1, <3>1, GatewayAssumption DEF RunsAs
    <3>. QED
      BY <2>1, <3>1, <3>2
  <2>2. ASSUME NEW c \in Configs, owed.begun = {c}, file \in {Truncated, Written(c)}
        PROVE  Loads(file) \subseteq {Override[d] : d \in owed.begun}
    <3>1. CASE file = Truncated
      <4>1. Loads(file) = {}
        BY <3>1, GatewayAssumption DEF Loads, Truncated, Intact
      <4>. QED
        BY <4>1
    <3>2. CASE file = Written(c)
      <4>1. Loads(file) = {Override[c]}
        BY <3>2, WrittenIsIntact DEF Loads
      <4>. QED
        BY <2>2, <4>1
    <3>. QED
      BY <2>2, <3>1, <3>2
  <2>. QED
    BY <1>1, <2>1, <2>2 DEF SavesInOrder
<1>2. GatewayTypeOK /\ SavesInOrder => CrashKeepsConfig
  BY <1>1 DEF CrashKeepsConfig
<1>. QED
  BY <1>2, GatewayTypes, SavesInvariant, PTL

\* A process that was told to stop and drained runs the same configuration when
\* it starts again: nothing was being saved when it ended.
DrainedIdle == (~up /\ stop = "drained") => owed.begun = {}

LEMMA DrainedIdleInvariant == Spec => []DrainedIdle
<1>1. Init => DrainedIdle
  BY DEF Init, DrainedIdle
<1>2. ASSUME DrainedIdle, [Next]_vars
      PROVE  DrainedIdle'
  <2>1. CASE UNCHANGED vars
    BY <1>2, <2>1 DEF DrainedIdle, vars
  <2>2. CASE Drained
    <3>1. \A a \in Admins : ~Saving(a)
      BY <2>2 DEF Drained, Saving, NoSave
    <3>. QED
      BY <2>2, <3>1 DEF Drained, Down, DrainedIdle
  <2>3. CASE Crash \/ DeadlinePasses
    BY <2>3 DEF Crash, DeadlinePasses, DrainedIdle
  <2>4. CASE Signal
    BY <2>4 DEF Signal, DrainedIdle
  <2>5. CASE Start
    BY <2>5 DEF Start, DrainedIdle
  <2>6. ASSUME NEW a \in Admins, PutStep(a)
        PROVE  DrainedIdle'
    BY <1>2, <2>6 DEF PutStep, Put, Truncate, OpenFails, Write, WriteFails, Swap, Acknowledge,
                      procVars, DrainedIdle
  <2>7. ASSUME NEW r \in Requests, RequestStep(r)
        PROVE  DrainedIdle'
    BY <1>2, <2>7 DEF RequestStep, Enter, Leave, procVars, DrainedIdle
  <2>8. ASSUME NEW v \in Viewers, ViewStep(v)
        PROVE  DrainedIdle'
    BY <1>2, <2>8 DEF ViewStep, ReadConfig, ReadPools, Show, procVars, DrainedIdle
  <2>. QED
    BY <1>2, <2>1, <2>2, <2>3, <2>4, <2>5, <2>6, <2>7, <2>8, StepsOfNext DEF ProcessEnds
<1>. QED
  BY <1>1, <1>2, PTL DEF Spec

\* A gateway that was told to stop and drained in time starts again with what
\* ran, if the last save was alone and whole.
THEOREM DrainedStopsAreHarmless == Spec => []DrainedRestartsTheSame
<1>1. ASSUME SavesInOrder, DrainedIdle, ~up, calm, stop = "drained"
      PROVE  Loads(file) = {Override[owed.live]}
  <2>1. RunsAs(owed.live, file)
    BY <1>1 DEF SavesInOrder, DrainedIdle
  <2>2. Loads(file) = {Override[file.config]} /\ file.config \in Configs
    BY <2>1 DEF RunsAs, Loads, Intact
  <2>3. Override[owed.live] = Override[file.config]
    BY <2>1, <2>2, GatewayAssumption DEF RunsAs
  <2>. QED
    BY <2>2, <2>3
<1>2. SavesInOrder /\ DrainedIdle => DrainedRestartsTheSame
  BY <1>1 DEF DrainedRestartsTheSame
<1>. QED
  BY <1>2, SavesInvariant, DrainedIdleInvariant, PTL
=============================================================================
