------------------------------ MODULE Registry ------------------------------
(***************************************************************************)
(* The tables of events and event-sets (src/driver/event.c, evset.c) under *)
(* concurrent commands  smon event -a  and  smon evset -a  (src/tool/src   *)
(* main.c, driver.c).  The driver takes no lock (unlocked_ioctl), so every *)
(* access to a count or a slot that another ioctl can write is a step.     *)
(*                                                                         *)
(* The assignment  events[n_events++] = new  loads the count, stores the   *)
(* count and stores the slot, in either order of the stores.  The contents *)
(* of an event is the command that added it, that of an event-set its set  *)
(* of events (evids), which is empty when all ids given are below zero.    *)
(***************************************************************************)
EXTENDS Integers

CONSTANTS
  Commands,   \* invocations of the tool, each adds an event or an event-set
  MaxEvents,  \* MAX_EVENTS
  MaxEvsets,  \* MAX_EVSETS
  Null

ASSUME RegistryAssumption ==
  /\ MaxEvents \in Nat \ {0} /\ MaxEvsets \in Nat \ {0}
  /\ Null \notin Commands /\ \A ids \in SUBSET (0 .. MaxEvents - 1) : Null # ids

Tables == {"event", "evset"}

\* The tool refuses event ids out of the table's range.
EventIds == 0 .. MaxEvents - 1
EvsetIds == 0 .. MaxEvsets - 1

VARIABLES
  n_events, events,   \* event.c
  n_evsets, evsets,   \* evset.c
  pc,      \* where each command is
  kind,    \* what it adds
  evids,   \* the events of the event-set it adds
  todo,    \* those not looked up yet
  idx      \* slot it has loaded, or -1

tableVars == <<n_events, events, n_evsets, evsets>>
vars      == <<tableVars, pc, kind, evids, todo, idx>>

\* A step of command c from label a to label b.
Goto(c, a, b) == pc[c] = a /\ pc' = [pc EXCEPT ![c] = b]

-----------------------------------------------------------------------------
(* Look-ups.                                                               *)

smon_check_event(id) == id < n_events

\* The faulty look-up trusts the count.
smon_get_event_ByCount(id) == smon_check_event(id)

\* smon_get_event returns an event.
smon_get_event(id) == id < n_events /\ events[id] # Null

-----------------------------------------------------------------------------
(* The tool.                                                               *)

\* smon event -a: SMON_IOCSEVT.
EventAdd(c) ==
  /\ Goto(c, "start", "full")
  /\ kind' = [kind EXCEPT ![c] = "event"]
  /\ UNCHANGED <<tableVars, evids, todo, idx>>

\* smon evset -a with the events in ids.
EvsetAdd(c, ids) ==
  /\ Goto(c, "start", IF ids = {} THEN "full" ELSE "check")
  /\ kind'  = [kind EXCEPT ![c] = "evset"]
  /\ evids' = [evids EXCEPT ![c] = ids]
  /\ todo'  = [todo EXCEPT ![c] = ids]
  /\ UNCHANGED <<tableVars, idx>>

\* smon_check_events of the tool: SMON_IOCCEVT for each event, then SMON_IOCSEVS.
CheckEvents(c, id) ==
  /\ pc[c] = "check" /\ id \in todo[c]
  /\ IF smon_check_event(id)
       THEN /\ todo' = [todo EXCEPT ![c] = IF @ = {id} THEN evids[c] ELSE @ \ {id}]
            /\ pc'   = [pc EXCEPT ![c] = IF todo[c] = {id} THEN "full" ELSE "check"]
       ELSE /\ pc' = [pc EXCEPT ![c] = "refused"]
            /\ UNCHANGED todo
  /\ UNCHANGED <<tableVars, kind, evids, idx>>

-----------------------------------------------------------------------------
(* smon_set_event and smon_set_evset.                                      *)

\* The test for a full table.
TableFull(c) ==
  /\ pc[c] = "full"
  /\ LET isFull == IF kind[c] = "event" THEN n_events = MaxEvents ELSE n_evsets = MaxEvsets
     IN  pc' = [pc EXCEPT ![c] = IF isFull THEN "refused" ELSE "alloc"]
  /\ UNCHANGED <<tableVars, kind, evids, todo, idx>>

\* kmalloc and memcpy of the caller's struct.
Alloc(c) ==
  /\ Goto(c, "alloc", IF todo[c] = {} THEN "load" ELSE "lookup")
  /\ UNCHANGED <<tableVars, kind, evids, todo, idx>>

\* kmalloc fails.
AllocFails(c) ==
  /\ Goto(c, "alloc", "refused")
  /\ UNCHANGED <<tableVars, kind, evids, todo, idx>>

\* smon_set_evset looks up each of its events.
LookUp(c, id) ==
  /\ pc[c] = "lookup" /\ id \in todo[c]
  /\ IF smon_get_event(id)
       THEN /\ todo' = [todo EXCEPT ![c] = @ \ {id}]
            /\ pc'   = [pc EXCEPT ![c] = IF todo[c] = {id} THEN "load" ELSE "lookup"]
       ELSE /\ pc' = [pc EXCEPT ![c] = "refused"]
            /\ UNCHANGED todo
  /\ UNCHANGED <<tableVars, kind, evids, idx>>

\* events[n_events++] = new: the count is loaded, ...
LoadCount(c) ==
  /\ Goto(c, "load", "stores")
  /\ idx' = [idx EXCEPT ![c] = IF kind[c] = "event" THEN n_events ELSE n_evsets]
  /\ UNCHANGED <<tableVars, kind, evids, todo>>

\* ... the count is stored (before the slot, or after it), ...
StoreCount(c) ==
  /\ \/ Goto(c, "stores", "slot")
     \/ Goto(c, "count", "added")
  /\ IF kind[c] = "event"
       THEN n_events' = idx[c] + 1 /\ UNCHANGED n_evsets
       ELSE n_evsets' = idx[c] + 1 /\ UNCHANGED n_events
  /\ UNCHANGED <<events, evsets, kind, evids, todo, idx>>

\* The faulty store takes the slot behind the one that was counted.
StoreSlot_NextSlot(c) ==
  /\ \/ Goto(c, "stores", "count")
     \/ Goto(c, "slot", "added")
  /\ IF kind[c] = "event"
       THEN /\ events' = [i \in EventIds |-> IF i = idx[c] + 1 THEN c ELSE events[i]]
            /\ UNCHANGED evsets
       ELSE /\ evsets' = [i \in EvsetIds |-> IF i = idx[c] + 1 THEN evids[c] ELSE evsets[i]]
            /\ UNCHANGED events
  /\ UNCHANGED <<n_events, n_evsets, kind, evids, todo, idx>>

\* The faulty store of an event-set, a copy of the other, takes the table of events.
StoreSlot_EventTable(c) ==
  /\ \/ Goto(c, "stores", "count")
     \/ Goto(c, "slot", "added")
  /\ events' = [i \in EventIds |->
       IF i = idx[c] THEN IF kind[c] = "event" THEN c ELSE evids[c] ELSE events[i]]
  /\ UNCHANGED <<n_events, evsets, n_evsets, kind, evids, todo, idx>>

\* ... and the slot is stored.  A slot behind the end of the table is somebody else's
\* memory, of which nothing can be said.
StoreSlot(c) ==
  /\ \/ Goto(c, "stores", "count")
     \/ Goto(c, "slot", "added")
  /\ IF kind[c] = "event"
       THEN /\ events' = [i \in EventIds |-> IF i = idx[c] THEN c ELSE events[i]]
            /\ UNCHANGED evsets
       ELSE /\ evsets' = [i \in EvsetIds |-> IF i = idx[c] THEN evids[c] ELSE evsets[i]]
            /\ UNCHANGED events
  /\ UNCHANGED <<n_events, n_evsets, kind, evids, todo, idx>>

smon_set_event(c) ==
  kind[c] = "event" /\ (TableFull(c) \/ Alloc(c) \/ AllocFails(c)
                        \/ LoadCount(c) \/ StoreCount(c) \/ StoreSlot(c))

smon_set_evset(c) ==
  kind[c] = "evset" /\ (TableFull(c) \/ Alloc(c) \/ AllocFails(c)
                        \/ (\E id \in EventIds : LookUp(c, id))
                        \/ LoadCount(c) \/ StoreCount(c) \/ StoreSlot(c))

-----------------------------------------------------------------------------

\* smon_event_init and smon_evset_init.
Init ==
  /\ n_events = 0 /\ events = [i \in EventIds |-> Null]
  /\ n_evsets = 0 /\ evsets = [i \in EvsetIds |-> Null]
  /\ pc    = [c \in Commands |-> "start"]
  /\ kind  = [c \in Commands |-> "event"]
  /\ evids = [c \in Commands |-> {}]
  /\ todo  = [c \in Commands |-> {}]
  /\ idx   = [c \in Commands |-> -1]

Ended(c) == pc[c] \in {"added", "refused"}

Over == (\A c \in Commands : Ended(c)) /\ UNCHANGED vars

Next ==
  \/ \E c \in Commands :
       \/ EventAdd(c)
       \/ \E ids \in SUBSET EventIds : EvsetAdd(c, ids)
       \/ \E id \in EventIds : CheckEvents(c, id)
       \/ smon_set_event(c)
       \/ smon_set_evset(c)
  \/ Over

Spec == Init /\ [][Next]_vars

-----------------------------------------------------------------------------
(* Properties.                                                             *)

TypeOK ==
  /\ n_events \in Nat /\ n_evsets \in Nat
  /\ events \in [EventIds -> Commands \cup {Null}]
  /\ evsets \in [EvsetIds -> (SUBSET EventIds) \cup {Null}]
  /\ pc \in [Commands -> {"start", "check", "full", "alloc", "lookup", "load", "stores",
                          "slot", "count", "added", "refused"}]
  /\ kind \in [Commands -> Tables]
  /\ evids \in [Commands -> SUBSET EventIds]
  /\ todo \in [Commands -> SUBSET EventIds]
  /\ idx \in [Commands -> Nat \cup {-1}]

\* README: "event-sets can only be defined with previously defined events": whatever
\* adds race, every event of an event-set is in the table of events.
EvsetsUseDefinedEvents ==
  \A s \in EvsetIds : evsets[s] # Null => \A id \in evsets[s] : events[id] # Null

\* The list commands stop at the first id without an entry: when no add is in
\* progress there is no empty slot below the count, whatever updates of it were lost.
NoHole ==
  (\A c \in Commands : Ended(c)) =>
    /\ \A i \in EventIds : i < n_events => events[i] # Null
    /\ \A i \in EvsetIds : i < n_evsets => evsets[i] # Null

=============================================================================
