--------------------------- MODULE RegistryProofs ---------------------------
(***************************************************************************)
(* The tables of events and event-sets (Registry) for every number of      *)
(* commands and every size of the tables.                                  *)
(***************************************************************************)
EXTENDS Registry, TLAPS

-----------------------------------------------------------------------------
(* The inductive invariant.                                                *)

Adding == {"stores", "slot", "count"}   \* the count is loaded
Owing  == {"stores", "slot"}            \* ... and the slot is not stored

\* What a command still has to look up, and that what it has looked up is defined.
CommandOK(c) ==
  /\ pc[c] = "start" => evids[c] = {} /\ todo[c] = {}
  /\ pc[c] = "check" => todo[c] \subseteq evids[c]
  /\ pc[c] \in {"full", "alloc"} => todo[c] = evids[c]
  /\ pc[c] \in {"lookup", "load"} \cup Adding =>
       \A id \in evids[c] : id \in todo[c] \/ events[id] # Null
  /\ pc[c] \in {"load"} \cup Adding => todo[c] = {}
  /\ pc[c] \in Adding => idx[c] \in Nat

LookedUp == \A c \in Commands : CommandOK(c)

\* A slot is covered when it is stored, or some command that has counted it is about to
\* store it.
EventCovered(i) ==
  \/ events[i] # Null
  \/ \E d \in Commands : kind[d] = "event" /\ idx[d] = i /\ pc[d] \in Owing

EvsetCovered(i) ==
  \/ evsets[i] # Null
  \/ \E d \in Commands : kind[d] = "evset" /\ idx[d] = i /\ pc[d] \in Owing

\* Every slot below a count is covered, also below a count that a command has loaded
\* and will store when it is out of date.
EventsCovered ==
  /\ \A i \in EventIds : i < n_events => EventCovered(i)
  /\ \A c \in Commands : kind[c] = "event" /\ pc[c] \in Adding =>
       \A i \in EventIds : i <= idx[c] => EventCovered(i)

EvsetsCovered ==
  /\ \A i \in EvsetIds : i < n_evsets => EvsetCovered(i)
  /\ \A c \in Commands : kind[c] = "evset" /\ pc[c] \in Adding =>
       \A i \in EvsetIds : i <= idx[c] => EvsetCovered(i)

RInv == TypeOK /\ LookedUp /\ EvsetsUseDefinedEvents /\ EventsCovered /\ EvsetsCovered

-----------------------------------------------------------------------------
(* Steps in front of the assignment: they leave the tables, and the        *)
(* commands that are adding, alone.                                        *)

LEMMA Outside ==
  ASSUME RInv, UNCHANGED <<tableVars, idx>>,
         \A d \in Commands : pc[d] \in Adding \/ pc'[d] \in Adding => pc'[d] = pc[d] /\ kind'[d] = kind[d]
  PROVE  EvsetsUseDefinedEvents' /\ EventsCovered' /\ EvsetsCovered'
<1>1. EvsetsUseDefinedEvents'
  BY DEF RInv, EvsetsUseDefinedEvents, tableVars
<1>2. \A i \in EventIds : EventCovered(i) => EventCovered(i)'
  BY DEF EventCovered, tableVars, Adding, Owing
<1>3. \A i \in EvsetIds : EvsetCovered(i) => EvsetCovered(i)'
  BY DEF EvsetCovered, tableVars, Adding, Owing
<1>4. EventsCovered'
  BY <1>2 DEF RInv, EventsCovered, tableVars
<1>5. EvsetsCovered'
  BY <1>3 DEF RInv, EvsetsCovered, tableVars
<1> QED  BY <1>1, <1>4, <1>5

LEMMA ToolStep ==
  ASSUME RInv, NEW c \in Commands,
         \/ EventAdd(c)
         \/ \E ids \in SUBSET EventIds : EvsetAdd(c, ids)
         \/ \E id \in EventIds : CheckEvents(c, id)
  PROVE  RInv'
<1> USE DEF RInv, TypeOK, Tables
<1>1. CASE EventAdd(c)
  <2>1. TypeOK' /\ LookedUp'
    BY <1>1 DEF EventAdd, Goto, tableVars, LookedUp, CommandOK, Adding
  <2> QED  BY <2>1, <1>1, Outside DEF EventAdd, Goto, Adding
<1>2. CASE \E ids \in SUBSET EventIds : EvsetAdd(c, ids)
  <2>1. PICK ids \in SUBSET EventIds : EvsetAdd(c, ids)
    BY <1>2
  <2>2. TypeOK'
    BY <2>1 DEF EvsetAdd, Goto, tableVars
  <2>3. LookedUp'
    BY <2>1 DEF EvsetAdd, Goto, tableVars, LookedUp, CommandOK, Adding
  <2> QED  BY <2>1, <2>2, <2>3, Outside DEF EvsetAdd, Goto, Adding
<1>3. CASE \E id \in EventIds : CheckEvents(c, id)
  <2>1. PICK id \in EventIds : CheckEvents(c, id)
    BY <1>3
  <2>2. TypeOK'
    BY <2>1 DEF CheckEvents, tableVars
  <2>3. LookedUp'
    BY <2>1 DEF CheckEvents, tableVars, LookedUp, CommandOK, Adding
  <2> QED  BY <2>1, <2>2, <2>3, Outside DEF CheckEvents, Adding
<1> QED  BY <1>1, <1>2, <1>3

LEMMA CheckStep ==
  ASSUME RInv, NEW c \in Commands,
         TableFull(c) \/ Alloc(c) \/ AllocFails(c) \/ \E id \in EventIds : LookUp(c, id)
  PROVE  RInv'
<1> USE DEF RInv, TypeOK, Tables
<1>1. CASE TableFull(c)
  <2>1. TypeOK' /\ LookedUp'
    BY <1>1 DEF TableFull, tableVars, LookedUp, CommandOK, Adding
  <2> QED  BY <2>1, <1>1, Outside DEF TableFull, Adding
<1>2. CASE Alloc(c)
  <2>1. TypeOK' /\ LookedUp'
    BY <1>2 DEF Alloc, Goto, tableVars, LookedUp, CommandOK, Adding
  <2> QED  BY <2>1, <1>2, Outside DEF Alloc, Goto, Adding
<1>3. CASE AllocFails(c)
  <2>1. TypeOK' /\ LookedUp'
    BY <1>3 DEF AllocFails, Goto, tableVars, LookedUp, CommandOK, Adding
  <2> QED  BY <2>1, <1>3, Outside DEF AllocFails, Goto, Adding
<1>4. CASE \E id \in EventIds : LookUp(c, id)
  <2>1. PICK id \in EventIds : LookUp(c, id)
    BY <1>4
  <2>2. TypeOK'
    BY <2>1 DEF LookUp, tableVars
  <2>3. LookedUp'
    BY <2>1 DEF LookUp, smon_get_event, tableVars, LookedUp, CommandOK, Adding
  <2> QED  BY <2>1, <2>2, <2>3, Outside DEF LookUp, Adding
<1> QED  BY <1>1, <1>2, <1>3, <1>4

-----------------------------------------------------------------------------
(* The assignment  events[n_events++] = new.                               *)

LEMMA LoadStep ==
  ASSUME RInv, NEW c \in Commands, LoadCount(c)
  PROVE  RInv'
<1> USE DEF RInv, TypeOK, Tables
<1>1. TypeOK'
  BY DEF LoadCount, Goto, tableVars
<1>2. LookedUp'
  BY DEF LoadCount, Goto, tableVars, LookedUp, CommandOK, Adding
<1>3. EvsetsUseDefinedEvents'
  BY DEF LoadCount, tableVars, EvsetsUseDefinedEvents
<1>4. \A i \in EventIds : EventCovered(i) \/ (kind[c] = "event" /\ i = n_events) => EventCovered(i)'
  BY DEF LoadCount, Goto, tableVars, EventCovered, Owing
<1>5. \A i \in EvsetIds : EvsetCovered(i) \/ (kind[c] = "evset" /\ i = n_evsets) => EvsetCovered(i)'
  BY DEF LoadCount, Goto, tableVars, EvsetCovered, Owing
<1>6. EventsCovered'
  <2>1. \A i \in EventIds : i < n_events' => EventCovered(i)'
    BY <1>4 DEF LoadCount, tableVars, EventsCovered
  <2>2. ASSUME NEW d \in Commands, kind'[d] = "event", pc'[d] \in Adding,
               NEW i \in EventIds, i <= idx'[d]
        PROVE  EventCovered(i)'
    <3>1. CASE d = c
      BY <3>1, <2>2, <1>4 DEF LoadCount, Goto, EventsCovered, EventIds
    <3>2. CASE d # c
      BY <3>2, <2>2, <1>4 DEF LoadCount, Goto, EventsCovered
    <3> QED  BY <3>1, <3>2
  <2> QED  BY <2>1, <2>2 DEF EventsCovered
<1>7. EvsetsCovered'
  <2>1. \A i \in EvsetIds : i < n_evsets' => EvsetCovered(i)'
    BY <1>5 DEF LoadCount, tableVars, EvsetsCovered
  <2>2. ASSUME NEW d \in Commands, kind'[d] = "evset", pc'[d] \in Adding,
               NEW i \in EvsetIds, i <= idx'[d]
        PROVE  EvsetCovered(i)'
    <3>1. CASE d = c
      BY <3>1, <2>2, <1>5 DEF LoadCount, Goto, EvsetsCovered, EvsetIds
    <3>2. CASE d # c
      BY <3>2, <2>2, <1>5 DEF LoadCount, Goto, EvsetsCovered
    <3> QED  BY <3>1, <3>2
  <2> QED  BY <2>1, <2>2 DEF EvsetsCovered
<1> QED  BY <1>1, <1>2, <1>3, <1>6, <1>7

LEMMA StoreCountStep ==
  ASSUME RInv, NEW c \in Commands, StoreCount(c)
  PROVE  RInv'
<1> USE DEF RInv, TypeOK, Tables
<1>0. /\ \/ pc[c] = "stores" /\ pc' = [pc EXCEPT ![c] = "slot"]
         \/ pc[c] = "count" /\ pc' = [pc EXCEPT ![c] = "added"]
      /\ UNCHANGED <<events, evsets, kind, evids, todo, idx>>
  BY DEF StoreCount, Goto
<1>1. pc[c] \in Adding /\ idx[c] \in Nat
  <2>1. pc[c] \in Adding
    BY <1>0 DEF Adding
  <2> QED  BY <2>1 DEF LookedUp, CommandOK
<1>2. TypeOK'
  BY <1>0, <1>1 DEF StoreCount
<1>3. LookedUp'
  BY <1>0, <1>1 DEF LookedUp, CommandOK, Adding
<1>4. EvsetsUseDefinedEvents'
  BY <1>0, <1>1 DEF EvsetsUseDefinedEvents
<1>5. \A i \in EventIds : EventCovered(i) => EventCovered(i)'
  BY <1>0, <1>1 DEF EventCovered, Owing
<1>6. \A i \in EvsetIds : EvsetCovered(i) => EvsetCovered(i)'
  BY <1>0, <1>1 DEF EvsetCovered, Owing
<1>7. \A d \in Commands : pc'[d] \in Adding => pc[d] \in Adding
  BY <1>0, <1>1 DEF Adding
<1>8. EventsCovered'
  <2>1. \A i \in EventIds : i < n_events' => i < n_events \/ (kind[c] = "event" /\ i <= idx[c])
    BY <1>0, <1>1 DEF StoreCount, EventIds
  <2> QED  BY <1>0, <1>1, <1>5, <1>7, <2>1 DEF EventsCovered
<1>9. EvsetsCovered'
  <2>1. \A i \in EvsetIds : i < n_evsets' => i < n_evsets \/ (kind[c] = "evset" /\ i <= idx[c])
    BY <1>0, <1>1 DEF StoreCount, EvsetIds
  <2> QED  BY <1>0, <1>1, <1>6, <1>7, <2>1 DEF EvsetsCovered
<1> QED  BY <1>2, <1>3, <1>4, <1>8, <1>9

LEMMA StoreSlotStep ==
  ASSUME RInv, NEW c \in Commands, StoreSlot(c)
  PROVE  RInv'
<1> USE DEF RInv, TypeOK, Tables
<1>0. /\ \/ pc[c] = "stores" /\ pc' = [pc EXCEPT ![c] = "count"]
         \/ pc[c] = "slot" /\ pc' = [pc EXCEPT ![c] = "added"]
      /\ UNCHANGED <<n_events, n_evsets, kind, evids, todo, idx>>
  BY DEF StoreSlot, Goto
<1>1. pc[c] \in Adding /\ idx[c] \in Nat
  <2>1. pc[c] \in Adding
    BY <1>0 DEF Adding
  <2> QED  BY <2>1 DEF LookedUp, CommandOK
<1>2. TypeOK'
  <2>1. events' \in [EventIds -> Commands \cup {Null}]
    BY DEF StoreSlot
  <2>2. evsets' \in [EvsetIds -> (SUBSET EventIds) \cup {Null}]
    BY DEF StoreSlot
  <2> QED  BY <2>1, <2>2, <1>0, <1>1
\* No slot is emptied.
<1>3. \A i \in EventIds : events[i] # Null => events'[i] # Null
  BY RegistryAssumption DEF StoreSlot
<1>4. evids[c] \in SUBSET EventIds /\ evids[c] # Null
  BY RegistryAssumption DEF EventIds
<1>5. \A i \in EvsetIds : evsets[i] # Null => evsets'[i] # Null
  BY <1>4 DEF StoreSlot
<1>6. LookedUp'
  BY <1>0, <1>1, <1>3 DEF LookedUp, CommandOK, Adding
<1>7. \A id \in evids[c] : events[id] # Null
  BY <1>0, <1>1 DEF LookedUp, CommandOK
<1>8. EvsetsUseDefinedEvents'
  <2> SUFFICES ASSUME NEW s \in EvsetIds, evsets'[s] # Null, NEW id \in evsets'[s]
               PROVE  events'[id] # Null
    BY DEF EvsetsUseDefinedEvents
  <2>1. evsets'[s] = evsets[s] \/ evsets'[s] = evids[c]
    BY DEF StoreSlot
  <2>2. events[id] # Null /\ id \in EventIds
    BY <2>1, <1>4, <1>7 DEF EvsetsUseDefinedEvents
  <2> QED  BY <2>2, <1>3
<1>9. \A i \in EventIds : EventCovered(i) => EventCovered(i)'
  <2> SUFFICES ASSUME NEW i \in EventIds, EventCovered(i)
               PROVE  EventCovered(i)'
    OBVIOUS
  <2>1. CASE kind[c] = "event" /\ i = idx[c]
    BY <2>1, RegistryAssumption DEF StoreSlot, EventCovered
  <2>2. CASE ~(kind[c] = "event" /\ i = idx[c])
    BY <2>2, <1>0, <1>1, <1>3 DEF EventCovered
  <2> QED  BY <2>1, <2>2
<1>10. \A i \in EvsetIds : EvsetCovered(i) => EvsetCovered(i)'
  <2> SUFFICES ASSUME NEW i \in EvsetIds, EvsetCovered(i)
               PROVE  EvsetCovered(i)'
    OBVIOUS
  <2>1. CASE kind[c] = "evset" /\ i = idx[c]
    BY <2>1, <1>4 DEF StoreSlot, EvsetCovered
  <2>2. CASE ~(kind[c] = "evset" /\ i = idx[c])
    BY <2>2, <1>0, <1>1, <1>5 DEF EvsetCovered
  <2> QED  BY <2>1, <2>2
<1>11. \A d \in Commands : pc'[d] \in Adding => pc[d] \in Adding
  BY <1>0, <1>1 DEF Adding
<1>12. EventsCovered'
  BY <1>0, <1>1, <1>9, <1>11 DEF EventsCovered
<1>13. EvsetsCovered'
  BY <1>0, <1>1, <1>10, <1>11 DEF EvsetsCovered
<1> QED  BY <1>2, <1>6, <1>8, <1>12, <1>13

-----------------------------------------------------------------------------
(* Theorems.                                                               *)

LEMMA RegistryInit == Init => RInv
<1> SUFFICES ASSUME Init
             PROVE  RInv
  OBVIOUS
<1>1. TypeOK
  BY DEF Init, TypeOK, Tables
<1>2. LookedUp
  BY DEF Init, LookedUp, CommandOK, Adding
<1>3. EvsetsUseDefinedEvents
  BY DEF Init, EvsetsUseDefinedEvents
<1>4. EventsCovered /\ EvsetsCovered
  BY DEF Init, EventsCovered, EvsetsCovered, EventIds, EvsetIds, Adding
<1> QED  BY <1>1, <1>2, <1>3, <1>4 DEF RInv

LEMMA RegistryStep == RInv /\ [Next]_vars => RInv'
<1> SUFFICES ASSUME RInv, [Next]_vars
             PROVE  RInv'
  OBVIOUS
<1>1. ASSUME NEW c \in Commands,
             \/ EventAdd(c)
             \/ \E ids \in SUBSET EventIds : EvsetAdd(c, ids)
             \/ \E id \in EventIds : CheckEvents(c, id)
             \/ smon_set_event(c)
             \/ smon_set_evset(c)
      PROVE  RInv'
  BY <1>1, ToolStep, CheckStep, LoadStep, StoreCountStep, StoreSlotStep DEF smon_set_event, smon_set_evset
<1>2. CASE UNCHANGED vars
  BY <1>2 DEF vars, tableVars, RInv, TypeOK, LookedUp, CommandOK, EvsetsUseDefinedEvents,
              EventsCovered, EvsetsCovered, EventCovered, EvsetCovered
<1> QED  BY <1>1, <1>2 DEF Next, Over

LEMMA RegistryInvariant == Spec => []RInv
BY RegistryInit, RegistryStep, PTL DEF Spec

\* The tables hold commands' events and sets of event ids, whatever adds race.
THEOREM RegistryTypeCorrect == Spec => []TypeOK
<1>1. RInv => TypeOK
  BY DEF RInv
<1> QED  BY <1>1, RegistryInvariant, PTL

\* No event-set of smon_set_evset names an event that smon_set_event has not stored, though
\* neither takes a lock.
THEOREM EvsetsOfDefinedEvents == Spec => []EvsetsUseDefinedEvents
<1>1. RInv => EvsetsUseDefinedEvents
  BY DEF RInv
<1> QED  BY <1>1, RegistryInvariant, PTL

\* Racing adds lose entries, but leave no empty slot below the count on which the list
\* commands would stop.
THEOREM TablesWithoutHoles == Spec => []NoHole
<1>1. RInv => NoHole
  <2> SUFFICES ASSUME RInv, \A c \in Commands : Ended(c)
               PROVE  /\ \A i \in EventIds : i < n_events => events[i] # Null
                      /\ \A i \in EvsetIds : i < n_evsets => evsets[i] # Null
    BY DEF NoHole
  <2>1. \A c \in Commands : pc[c] \notin Owing
    BY DEF Ended, Owing
  <2> QED  BY <2>1 DEF RInv, EventsCovered, EvsetsCovered, EventCovered, EvsetCovered
<1> QED  BY <1>1, RegistryInvariant, PTL

=============================================================================
