--------------------------- MODULE ForegroundSlot ---------------------------
(***************************************************************************)
(* What HQ Dispatch promises about its foreground: one governed mission at *)
(* a time, and no mission twice (one_active_mission_per_process in the     *)
(* registry projection of tools/hq-dispatch/v1/server.mjs).                *)
(***************************************************************************)
CONSTANTS Missions, None

VARIABLES holder,   \* the mission that holds the foreground, or None
          over      \* missions that can never hold it again

slotVars == <<holder, over>>

SlotInit == holder = None /\ over = {}

Acquire(m) ==
    /\ holder = None
    /\ m \notin over
    /\ holder' = m
    /\ UNCHANGED over

Release ==
    /\ holder # None
    /\ over' = over \cup {holder}
    /\ holder' = None

\* A mission is recorded without ever holding the foreground.
PassOver(m) ==
    /\ m # holder
    /\ over' = over \cup {m}
    /\ UNCHANGED holder

SlotNext ==
    \/ \E m \in Missions : Acquire(m) \/ PassOver(m)
    \/ Release

SlotSpec == SlotInit /\ [][SlotNext]_slotVars /\ WF_slotVars(Release)
=============================================================================
