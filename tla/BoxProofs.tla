------------------------------- MODULE BoxProofs -------------------------------
(***************************************************************************)
(* Theorems about BoxLifecycle for any number of boots and removals, and     *)
(* whatever fails.                                                           *)
(***************************************************************************)
EXTENDS BoxLifecycle, TLAPS

(* Until its box is up a boot has none; until its record is written nobody    *)
(* can find what it has started, which is all the box needs.                 *)
StartInv ==
    \A b \in Boots :
        /\ at[b] \in {"new", "provision", "relay", "up"} => box[b] = "none"
        /\ at[b] \in {"new", "provision", "relay", "up", "record", "unwind"} => ~record[b]
        /\ at[b] \in {"new", "provision"} => alive[b] = {}
        /\ at[b] = "relay" => needs[b] \cap {"proxy"} \subseteq alive[b]
        /\ at[b] \in {"up", "record"} => needs[b] \subseteq alive[b]
        /\ at[b] = "unwind" => b \notin Running \/ ~Spared({"unwritten"})

(* A record, a removal and a sweep are of boxes that came up.                *)
CameUpInv ==
    /\ \A b \in Boots : record[b] \/ at[b] = "record" => box[b] # "none"
    /\ \A b \in Boots : \A c \in sweep[b] : box[c] # "none"
    /\ \A r \in Removers :
          /\ at[r] = "new" => target[r] = Nobody
          /\ target[r] # Nobody => box[target[r]] # "none"
          /\ at[r] \in {"ask", "find", "stop", "reap proxy", "reap relay", "look", "forget"} =>
                target[r] \in Boots

(* Whoever reaps a box has seen it down, but a boot that abandons its own.     *)
GoneInv ==
    \A p \in Processes :
        /\ at[p] \in {"reap proxy", "reap relay"} =>
              \/ p \in Boots /\ Detached(p)
              \/ box[Node(p)] = "gone" \/ ~Spared({"undowned"})
        /\ at[p] \in {"look", "forget"} =>
              box[Node(p)] = "gone" \/ ~Spared({"undowned", "silent"})

(* Between the look and the removal no files appear.                         *)
HeldInv ==
    \A p \in Processes :
        at[p] = "forget" /\ held[Node(p)] => Consents(p) \/ ~Spared({"undowned", "silent"})

Removed(b) == \E r \in Removers : target[r] = b

(* A boot that abandons its box has the record to reap by, and reaps.          *)
AbandonInv ==
    \A b \in Boots :
        \/ Removed(b)
        \/ /\ at[b] \in {"booted", "entered", "reap proxy", "reap relay", "down"} => record[b]
           /\ at[b] = "reap relay" => "proxy" \notin alive[b]
           /\ at[b] = "down" /\ Detached(b) => alive[b] = {}

(* Only a boot that waits for its box is interrupted, and until the box is down  *)
(* it leaves the box what it needs.                                          *)
InterruptInv ==
    \A b \in Boots :
        /\ signal[b] # "none" => at[b] # "new" /\ ~Detached(b)
        /\ at[b] = "down" /\ ~Detached(b) =>
              \/ b \notin Running
              \/ record[b] => needs[b] \subseteq alive[b]
              \/ ~Spared({"killed", "undowned"})

IInv ==
    /\ BoxTypeOK
    /\ StartInv
    /\ CameUpInv
    /\ GoneInv
    /\ HeldInv
    /\ AbandonInv
    /\ InterruptInv
    /\ BoxIsTracked
    /\ DoorIsThere
    /\ FailedLeavesNothing

--------------------------------------------------------------------------------
(* Each part of the invariant is kept by every step.                        *)

(* Only what a boot needs runs for its box. *)
LEMMA BoxTypeOKStep ==
  ASSUME StartInv, CameUpInv, BoxTypeOK, [Next]_vars
  PROVE BoxTypeOK'
<1> USE DEF BoxTypeOK, Go, Processes, boots, boxes, interrupts, removals
<1>1. ASSUME NEW b \in Boots, NEW k \in Kinds, NEW needed \in Grants, Begin(b, k,
             needed)
      PROVE  BoxTypeOK'
  <2>1. k \in AllKinds /\ needed \in SUBSET {"proxy", "relay"} /\ alive[b] = {}
    BY <1>1, BoxAssumption DEF Begin, StartInv, BoxAssumption
  <2> QED
    BY <1>1, <2>1 DEF Begin, Stages, Booting, Running
<1>2. ASSUME NEW b \in Boots, Provision(b) PROVE BoxTypeOK'
  BY <1>2 DEF Provision, Stages, Booting, Ended
<1>3. ASSUME NEW b \in Boots, ProvisionFails(b) PROVE BoxTypeOK'
  BY <1>3 DEF ProvisionFails, Stages, Booting, Ended
<1>4. ASSUME NEW b \in Boots, SpawnRelay(b) PROVE BoxTypeOK'
  BY <1>4 DEF SpawnRelay, Stages, Booting, Ended
<1>5. ASSUME NEW b \in Boots, SpawnFails(b) PROVE BoxTypeOK'
  BY <1>5 DEF SpawnFails, Stages, Booting, Ended
<1>6. ASSUME NEW b \in Boots, Up(b) PROVE BoxTypeOK'
  BY <1>6 DEF Up, Stages, Booting, Ended
<1>7. ASSUME NEW b \in Boots, UpFails(b) PROVE BoxTypeOK'
  BY <1>7 DEF UpFails, Stages, Booting, Ended
<1>8. ASSUME NEW b \in Boots, WriteRecord(b) PROVE BoxTypeOK'
  BY <1>8 DEF WriteRecord, Stages, Booting, Ended
<1>9. ASSUME NEW b \in Boots, WriteFails(b) PROVE BoxTypeOK'
  BY <1>9 DEF WriteFails, Lapse, AllFaults, Stages, Booting, Ended
<1>10. ASSUME NEW b \in Boots, Unwind(b) PROVE BoxTypeOK'
  BY <1>10 DEF Unwind, Stages, Booting, Ended
<1>11. ASSUME NEW b \in Boots, Enter(b) PROVE BoxTypeOK'
  BY <1>11 DEF Enter, Stages, Booting, Ended
<1>12. ASSUME NEW b \in Boots, Detach(b) PROVE BoxTypeOK'
  BY <1>12 DEF Detach, Stages, Booting, Ended
<1>13. ASSUME NEW b \in Boots, Abandon(b) PROVE BoxTypeOK'
  BY <1>13 DEF Abandon, Stages, Booting, Ended
<1>14. ASSUME NEW b \in Boots, CommandEnds(b) PROVE BoxTypeOK'
  BY <1>14 DEF CommandEnds, Stages, Booting, Ended
<1>15. ASSUME NEW b \in Boots, Down(b) PROVE BoxTypeOK'
  BY <1>15 DEF Down, AfterDown, Stages, Booting, Ended
<1>16. ASSUME NEW b \in Boots, DownFails(b) PROVE BoxTypeOK'
  BY <1>16 DEF DownFails, AfterDown, Lapse, AllFaults, Stages, Booting, Ended
<1>17. ASSUME NEW b \in Boots, Interrupt(b) PROVE BoxTypeOK'
  BY <1>17 DEF Interrupt, Stages, Booting, Ended
<1>18. ASSUME NEW b \in Boots, Sweep(b) PROVE BoxTypeOK'
  BY <1>18 DEF Sweep, Over, Running, Stages, Booting, Ended
<1>19. ASSUME NEW b \in Boots, SweepSilent(b) PROVE BoxTypeOK'
  BY <1>19 DEF SweepSilent, Lapse, Over, AllFaults, Stages, Booting, Ended
<1>20. ASSUME NEW b \in Boots, NEW c \in Boots, SweepDown(b, c) PROVE BoxTypeOK'
  BY <1>20 DEF SweepDown, Swept, Stages, Booting, Ended
<1>21. ASSUME NEW b \in Boots, NEW c \in Boots, SweepFails(b, c) PROVE BoxTypeOK'
  BY <1>21 DEF SweepFails, Swept, Lapse, AllFaults, Stages, Booting, Ended
<1>22. ASSUME NEW b \in Boots, Exit(b) PROVE BoxTypeOK'
  BY <1>22 DEF Exit, AllFaults, Stages, Booting, Ended
<1>23. ASSUME NEW p \in Processes, ReapProxy(p) PROVE BoxTypeOK'
  BY <1>23 DEF ReapProxy, Kill, Node, Stages, Booting, Ended
<1>24. ASSUME NEW p \in Processes, ReapRelay(p) PROVE BoxTypeOK'
  BY <1>24 DEF ReapRelay, Kill, Node, Stages, Booting, Ended
<1>25. ASSUME NEW p \in Processes, Look(p) PROVE BoxTypeOK'
  BY <1>25 DEF Look, Stages, Booting, Ended
<1>26. ASSUME NEW p \in Processes, Forget(p) PROVE BoxTypeOK'
  BY <1>26 DEF Forget, Node, Stages, Booting, Ended
<1>27. ASSUME NEW r \in Removers, NEW b \in Boots, NEW said \in BOOLEAN, Rm(r, b,
              said)
      PROVE  BoxTypeOK'
  BY <1>27 DEF Rm, Takes, Stages, Booting, Ended
<1>28. ASSUME NEW r \in Removers, NEW b \in Boots, NEW said \in BOOLEAN, RmKeep(r, b,
              said)
      PROVE  BoxTypeOK'
  BY <1>28 DEF RmKeep, Takes, Stages, Booting, Ended
<1>29. ASSUME NEW r \in Removers, AnswerPresent(r) PROVE BoxTypeOK'
  BY <1>29 DEF AnswerPresent, Stages, Booting, Ended
<1>30. ASSUME NEW r \in Removers, AnswerAbsent(r) PROVE BoxTypeOK'
  BY <1>30 DEF AnswerAbsent, Stages, Booting, Ended
<1>31. ASSUME NEW r \in Removers, AnswerSilent(r) PROVE BoxTypeOK'
  BY <1>31 DEF AnswerSilent, Stages, Booting, Ended
<1>32. ASSUME NEW r \in Removers, Find(r) PROVE BoxTypeOK'
  BY <1>32 DEF Find, Stages, Booting, Ended
<1>33. ASSUME NEW r \in Removers, FindSilent(r) PROVE BoxTypeOK'
  BY <1>33 DEF FindSilent, Lapse, AllFaults, Stages, Booting, Ended
<1>34. ASSUME NEW r \in Removers, Stop(r) PROVE BoxTypeOK'
  BY <1>34 DEF Stop, Stages, Booting, Ended
<1>35. ASSUME NEW r \in Removers, StopFails(r) PROVE BoxTypeOK'
  BY <1>35 DEF StopFails, Stages, Booting, Ended
<1>36. ASSUME NEW p \in Processes, Killed(p) PROVE BoxTypeOK'
  BY <1>36 DEF Killed, Lapse, AllFaults, Stages, Booting, Ended
<1>37. ASSUME NEW b \in Boots, BoxStops(b) PROVE BoxTypeOK'
  BY <1>37 DEF BoxStops, Lapse, AllFaults, Stages, Booting, Ended
<1>38. ASSUME NEW b \in Boots, HoldsFiles(b) PROVE BoxTypeOK'
  BY <1>38 DEF HoldsFiles, Stages, Booting, Ended
<1>39. CASE UNCHANGED vars
  BY <1>39 DEF vars, Stages, Booting, Ended
<1> HIDE DEF BoxTypeOK, Go, Processes, boots, boxes, interrupts, removals
<1> QED
  BY <1>1, <1>2, <1>3, <1>4, <1>5, <1>6, <1>7, <1>8, <1>9, <1>10, <1>11, <1>12,
       <1>13, <1>14, <1>15, <1>16, <1>17, <1>18, <1>19, <1>20, <1>21, <1>22,
       <1>23, <1>24, <1>25, <1>26, <1>27, <1>28, <1>29, <1>30, <1>31, <1>32,
       <1>33, <1>34, <1>35, <1>36, <1>37, <1>38, <1>39
     DEF Next, BootStep, ReapStep, RmStep, SweepStep, Rest

(* A boot that has not got far has got nothing else. *)
LEMMA StartInvStep ==
  ASSUME BoxTypeOK, CameUpInv, StartInv, [Next]_vars
  PROVE StartInv'
<1>0. /\ at \in [Processes -> Stages]
      /\ box \in [Boots -> {"none", "running", "gone"}]
      /\ record \in [Boots -> BOOLEAN]
      /\ alive \in [Boots -> SUBSET {"proxy", "relay"}]
      /\ needs \in [Boots -> SUBSET {"proxy", "relay"}]
      /\ \A b \in Boots : alive[b] \subseteq needs[b]
      /\ Boots \cap Removers = {} /\ Nobody \notin Boots
  BY BoxAssumption DEF BoxTypeOK, BoxAssumption
<1> USE <1>0 DEF StartInv, Go, Processes, Running, Spared, boots, boxes,
     interrupts, removals
<1>1. ASSUME NEW b \in Boots, NEW k \in Kinds, NEW needed \in Grants, Begin(b, k,
             needed)
      PROVE  StartInv'
  BY <1>1 DEF Begin
<1>2. ASSUME NEW b \in Boots, Provision(b) PROVE StartInv'
  BY <1>2 DEF Provision
<1>3. ASSUME NEW b \in Boots, ProvisionFails(b) PROVE StartInv'
  BY <1>3 DEF ProvisionFails
<1>4. ASSUME NEW b \in Boots, SpawnRelay(b) PROVE StartInv'
  BY <1>4 DEF SpawnRelay
<1>5. ASSUME NEW b \in Boots, SpawnFails(b) PROVE StartInv'
  BY <1>5 DEF SpawnFails
<1>6. ASSUME NEW b \in Boots, Up(b) PROVE StartInv'
  BY <1>6 DEF Up
<1>7. ASSUME NEW b \in Boots, UpFails(b) PROVE StartInv'
  BY <1>7 DEF UpFails
<1>8. ASSUME NEW b \in Boots, WriteRecord(b) PROVE StartInv'
  BY <1>8 DEF WriteRecord
<1>9. ASSUME NEW b \in Boots, WriteFails(b) PROVE StartInv'
  BY <1>9 DEF WriteFails, Lapse, Spared
<1>10. ASSUME NEW b \in Boots, Unwind(b) PROVE StartInv'
  BY <1>10 DEF Unwind
<1>11. ASSUME NEW b \in Boots, Enter(b) PROVE StartInv'
  BY <1>11 DEF Enter
<1>12. ASSUME NEW b \in Boots, Detach(b) PROVE StartInv'
  BY <1>12 DEF Detach
<1>13. ASSUME NEW b \in Boots, Abandon(b) PROVE StartInv'
  BY <1>13 DEF Abandon
<1>14. ASSUME NEW b \in Boots, CommandEnds(b) PROVE StartInv'
  BY <1>14 DEF CommandEnds
<1>15. ASSUME NEW b \in Boots, Down(b) PROVE StartInv'
  BY <1>15 DEF Down, AfterDown
<1>16. ASSUME NEW b \in Boots, DownFails(b) PROVE StartInv'
  BY <1>16 DEF DownFails, AfterDown, Lapse, Spared
<1>17. ASSUME NEW b \in Boots, Interrupt(b) PROVE StartInv'
  BY <1>17 DEF Interrupt, Spared
<1>18. ASSUME NEW b \in Boots, Sweep(b) PROVE StartInv'
  BY <1>18 DEF Sweep
<1>19. ASSUME NEW b \in Boots, SweepSilent(b) PROVE StartInv'
  BY <1>19 DEF SweepSilent, Lapse
<1>20. ASSUME NEW b \in Boots, NEW c \in Boots, SweepDown(b, c) PROVE StartInv'
  BY <1>20 DEF SweepDown, Swept, CameUpInv
<1>21. ASSUME NEW b \in Boots, NEW c \in Boots, SweepFails(b, c) PROVE StartInv'
  BY <1>21 DEF SweepFails, Swept, Lapse, Spared
<1>22. ASSUME NEW b \in Boots, Exit(b) PROVE StartInv'
  BY <1>22 DEF Exit, Spared
<1>23. ASSUME NEW p \in Processes, ReapProxy(p) PROVE StartInv'
  <2>1. \A b \in Boots : ~record[b] => alive'[b] = alive[b]
    BY <1>23 DEF ReapProxy, Kill
  <2> QED
    BY <1>23, <2>1 DEF ReapProxy
<1>24. ASSUME NEW p \in Processes, ReapRelay(p) PROVE StartInv'
  <2>1. \A b \in Boots : ~record[b] => alive'[b] = alive[b]
    BY <1>24 DEF ReapRelay, Kill
  <2> QED
    BY <1>24, <2>1 DEF ReapRelay
<1>25. ASSUME NEW p \in Processes, Look(p) PROVE StartInv'
  BY <1>25 DEF Look
<1>26. ASSUME NEW p \in Processes, Forget(p) PROVE StartInv'
  BY <1>26 DEF Forget, Node
<1>27. ASSUME NEW r \in Removers, NEW b \in Boots, NEW said \in BOOLEAN, Rm(r, b,
              said)
      PROVE  StartInv'
  BY <1>27 DEF Rm, Takes
<1>28. ASSUME NEW r \in Removers, NEW b \in Boots, NEW said \in BOOLEAN, RmKeep(r, b,
              said)
      PROVE  StartInv'
  BY <1>28 DEF RmKeep, Takes
<1>29. ASSUME NEW r \in Removers, AnswerPresent(r) PROVE StartInv'
  BY <1>29 DEF AnswerPresent
<1>30. ASSUME NEW r \in Removers, AnswerAbsent(r) PROVE StartInv'
  BY <1>30 DEF AnswerAbsent
<1>31. ASSUME NEW r \in Removers, AnswerSilent(r) PROVE StartInv'
  BY <1>31 DEF AnswerSilent
<1>32. ASSUME NEW r \in Removers, Find(r) PROVE StartInv'
  BY <1>32 DEF Find
<1>33. ASSUME NEW r \in Removers, FindSilent(r) PROVE StartInv'
  BY <1>33 DEF FindSilent, Lapse, Spared
<1>34. ASSUME NEW r \in Removers, Stop(r) PROVE StartInv'
  BY <1>34, ZenonT(40) DEF Stop, CameUpInv
<1>35. ASSUME NEW r \in Removers, StopFails(r) PROVE StartInv'
  BY <1>35 DEF StopFails
<1>36. ASSUME NEW p \in Processes, Killed(p) PROVE StartInv'
  BY <1>36 DEF Killed, Lapse, Spared
<1>37. ASSUME NEW b \in Boots, BoxStops(b) PROVE StartInv'
  BY <1>37 DEF BoxStops, Lapse, Spared
<1>38. ASSUME NEW b \in Boots, HoldsFiles(b) PROVE StartInv'
  BY <1>38 DEF HoldsFiles
<1>39. CASE UNCHANGED vars
  BY <1>39 DEF vars
<1> HIDE <1>0 DEF StartInv, Go, Processes, Running, Spared, boots, boxes,
     interrupts, removals
<1> QED
  BY <1>1, <1>2, <1>3, <1>4, <1>5, <1>6, <1>7, <1>8, <1>9, <1>10, <1>11, <1>12,
       <1>13, <1>14, <1>15, <1>16, <1>17, <1>18, <1>19, <1>20, <1>21, <1>22,
       <1>23, <1>24, <1>25, <1>26, <1>27, <1>28, <1>29, <1>30, <1>31, <1>32,
       <1>33, <1>34, <1>35, <1>36, <1>37, <1>38, <1>39
     DEF Next, BootStep, ReapStep, RmStep, SweepStep, Rest

(* No box goes back to not having come up. *)
LEMMA CameUpInvStep ==
  ASSUME BoxTypeOK, StartInv, CameUpInv, [Next]_vars
  PROVE CameUpInv'
<1>0. /\ at \in [Processes -> Stages]
      /\ box \in [Boots -> {"none", "running", "gone"}]
      /\ record \in [Boots -> BOOLEAN]
      /\ target \in [Removers -> Boots \cup {Nobody}]
      /\ sweep \in [Boots -> SUBSET Boots]
      /\ Boots \cap Removers = {} /\ Nobody \notin Boots
  BY BoxAssumption DEF BoxTypeOK, BoxAssumption
<1> USE <1>0 DEF CameUpInv, Go, Running, Processes, boots, boxes, interrupts,
     removals
<1>1. ASSUME NEW b \in Boots, NEW k \in Kinds, NEW needed \in Grants, Begin(b, k,
             needed)
      PROVE  CameUpInv'
  BY <1>1 DEF Begin
<1>2. ASSUME NEW b \in Boots, Provision(b) PROVE CameUpInv'
  BY <1>2 DEF Provision
<1>3. ASSUME NEW b \in Boots, ProvisionFails(b) PROVE CameUpInv'
  BY <1>3 DEF ProvisionFails
<1>4. ASSUME NEW b \in Boots, SpawnRelay(b) PROVE CameUpInv'
  BY <1>4 DEF SpawnRelay
<1>5. ASSUME NEW b \in Boots, SpawnFails(b) PROVE CameUpInv'
  BY <1>5 DEF SpawnFails
<1>6. ASSUME NEW b \in Boots, Up(b) PROVE CameUpInv'
  BY <1>6 DEF Up
<1>7. ASSUME NEW b \in Boots, UpFails(b) PROVE CameUpInv'
  BY <1>7 DEF UpFails
<1>8. ASSUME NEW b \in Boots, WriteRecord(b) PROVE CameUpInv'
  BY <1>8 DEF WriteRecord
<1>9. ASSUME NEW b \in Boots, WriteFails(b) PROVE CameUpInv'
  BY <1>9 DEF WriteFails, Lapse
<1>10. ASSUME NEW b \in Boots, Unwind(b) PROVE CameUpInv'
  BY <1>10 DEF Unwind
<1>11. ASSUME NEW b \in Boots, Enter(b) PROVE CameUpInv'
  BY <1>11 DEF Enter
<1>12. ASSUME NEW b \in Boots, Detach(b) PROVE CameUpInv'
  BY <1>12 DEF Detach
<1>13. ASSUME NEW b \in Boots, Abandon(b) PROVE CameUpInv'
  BY <1>13 DEF Abandon
<1>14. ASSUME NEW b \in Boots, CommandEnds(b) PROVE CameUpInv'
  BY <1>14 DEF CommandEnds
<1>15. ASSUME NEW b \in Boots, Down(b) PROVE CameUpInv'
  BY <1>15 DEF Down, AfterDown
<1>16. ASSUME NEW b \in Boots, DownFails(b) PROVE CameUpInv'
  BY <1>16 DEF DownFails, AfterDown, Lapse
<1>17. ASSUME NEW b \in Boots, Interrupt(b) PROVE CameUpInv'
  BY <1>17 DEF Interrupt
<1>18. ASSUME NEW b \in Boots, Sweep(b) PROVE CameUpInv'
  BY <1>18 DEF Sweep
<1>19. ASSUME NEW b \in Boots, SweepSilent(b) PROVE CameUpInv'
  BY <1>19 DEF SweepSilent, Lapse
<1>20. ASSUME NEW b \in Boots, NEW c \in Boots, SweepDown(b, c) PROVE CameUpInv'
  BY <1>20 DEF SweepDown, Swept
<1>21. ASSUME NEW b \in Boots, NEW c \in Boots, SweepFails(b, c) PROVE CameUpInv'
  BY <1>21 DEF SweepFails, Swept, Lapse
<1>22. ASSUME NEW b \in Boots, Exit(b) PROVE CameUpInv'
  BY <1>22 DEF Exit
<1>23. ASSUME NEW p \in Processes, ReapProxy(p) PROVE CameUpInv'
  BY <1>23 DEF ReapProxy, Kill
<1>24. ASSUME NEW p \in Processes, ReapRelay(p) PROVE CameUpInv'
  BY <1>24 DEF ReapRelay, Kill
<1>25. ASSUME NEW p \in Processes, Look(p) PROVE CameUpInv'
  BY <1>25 DEF Look
<1>26. ASSUME NEW p \in Processes, Forget(p) PROVE CameUpInv'
  BY <1>26 DEF Forget
<1>27. ASSUME NEW r \in Removers, NEW b \in Boots, NEW said \in BOOLEAN, Rm(r, b,
              said)
      PROVE  CameUpInv'
  BY <1>27 DEF Rm, Takes
<1>28. ASSUME NEW r \in Removers, NEW b \in Boots, NEW said \in BOOLEAN, RmKeep(r, b,
              said)
      PROVE  CameUpInv'
  BY <1>28 DEF RmKeep, Takes
<1>29. ASSUME NEW r \in Removers, AnswerPresent(r) PROVE CameUpInv'
  BY <1>29 DEF AnswerPresent
<1>30. ASSUME NEW r \in Removers, AnswerAbsent(r) PROVE CameUpInv'
  BY <1>30 DEF AnswerAbsent
<1>31. ASSUME NEW r \in Removers, AnswerSilent(r) PROVE CameUpInv'
  BY <1>31 DEF AnswerSilent
<1>32. ASSUME NEW r \in Removers, Find(r) PROVE CameUpInv'
  BY <1>32 DEF Find
<1>33. ASSUME NEW r \in Removers, FindSilent(r) PROVE CameUpInv'
  BY <1>33 DEF FindSilent, Lapse
<1>34. ASSUME NEW r \in Removers, Stop(r) PROVE CameUpInv'
  BY <1>34 DEF Stop
<1>35. ASSUME NEW r \in Removers, StopFails(r) PROVE CameUpInv'
  BY <1>35 DEF StopFails
<1>36. ASSUME NEW p \in Processes, Killed(p) PROVE CameUpInv'
  BY <1>36 DEF Killed, Lapse
<1>37. ASSUME NEW b \in Boots, BoxStops(b) PROVE CameUpInv'
  BY <1>37 DEF BoxStops, Lapse
<1>38. ASSUME NEW b \in Boots, HoldsFiles(b) PROVE CameUpInv'
  BY <1>38 DEF HoldsFiles
<1>39. CASE UNCHANGED vars
  BY <1>39 DEF vars
<1> HIDE <1>0 DEF CameUpInv, Go, Running, Processes, boots, boxes, interrupts,
     removals
<1> QED
  BY <1>1, <1>2, <1>3, <1>4, <1>5, <1>6, <1>7, <1>8, <1>9, <1>10, <1>11, <1>12,
       <1>13, <1>14, <1>15, <1>16, <1>17, <1>18, <1>19, <1>20, <1>21, <1>22,
       <1>23, <1>24, <1>25, <1>26, <1>27, <1>28, <1>29, <1>30, <1>31, <1>32,
       <1>33, <1>34, <1>35, <1>36, <1>37, <1>38, <1>39
     DEF Next, BootStep, ReapStep, RmStep, SweepStep, Rest

(* A box that is down stays down, and a removal goes on only behind one. *)
LEMMA GoneInvStep ==
  ASSUME BoxTypeOK, StartInv, CameUpInv, GoneInv, [Next]_vars
  PROVE GoneInv'
<1>0. /\ at \in [Processes -> Stages]
      /\ box \in [Boots -> {"none", "running", "gone"}]
      /\ target \in [Removers -> Boots \cup {Nobody}]
      /\ kind \in [Boots -> AllKinds]
      /\ Boots \cap Removers = {} /\ Nobody \notin Boots
  BY BoxAssumption DEF BoxTypeOK, BoxAssumption
<1> USE <1>0 DEF GoneInv, Go, Running, Processes, Node, Spared, Detached, boots,
     boxes, interrupts, removals
<1>1. ASSUME NEW b \in Boots, NEW k \in Kinds, NEW needed \in Grants, Begin(b, k,
             needed)
      PROVE  GoneInv'
  BY <1>1 DEF Begin, StartInv
<1>2. ASSUME NEW b \in Boots, Provision(b) PROVE GoneInv'
  BY <1>2 DEF Provision
<1>3. ASSUME NEW b \in Boots, ProvisionFails(b) PROVE GoneInv'
  BY <1>3 DEF ProvisionFails
<1>4. ASSUME NEW b \in Boots, SpawnRelay(b) PROVE GoneInv'
  BY <1>4 DEF SpawnRelay
<1>5. ASSUME NEW b \in Boots, SpawnFails(b) PROVE GoneInv'
  BY <1>5 DEF SpawnFails
<1>6. ASSUME NEW b \in Boots, Up(b) PROVE GoneInv'
  BY <1>6 DEF Up, StartInv, CameUpInv
<1>7. ASSUME NEW b \in Boots, UpFails(b) PROVE GoneInv'
  BY <1>7 DEF UpFails
<1>8. ASSUME NEW b \in Boots, WriteRecord(b) PROVE GoneInv'
  BY <1>8 DEF WriteRecord
<1>9. ASSUME NEW b \in Boots, WriteFails(b) PROVE GoneInv'
  BY <1>9 DEF WriteFails, Lapse
<1>10. ASSUME NEW b \in Boots, Unwind(b) PROVE GoneInv'
  BY <1>10 DEF Unwind
<1>11. ASSUME NEW b \in Boots, Enter(b) PROVE GoneInv'
  BY <1>11 DEF Enter
<1>12. ASSUME NEW b \in Boots, Detach(b) PROVE GoneInv'
  BY <1>12 DEF Detach
<1>13. ASSUME NEW b \in Boots, Abandon(b) PROVE GoneInv'
  BY <1>13 DEF Abandon
<1>14. ASSUME NEW b \in Boots, CommandEnds(b) PROVE GoneInv'
  BY <1>14 DEF CommandEnds
<1>15. ASSUME NEW b \in Boots, Down(b) PROVE GoneInv'
  BY <1>15 DEF Down, AfterDown, CameUpInv
<1>16. ASSUME NEW b \in Boots, DownFails(b) PROVE GoneInv'
  BY <1>16 DEF DownFails, AfterDown, Lapse
<1>17. ASSUME NEW b \in Boots, Interrupt(b) PROVE GoneInv'
  BY <1>17 DEF Interrupt
<1>18. ASSUME NEW b \in Boots, Sweep(b) PROVE GoneInv'
  BY <1>18 DEF Sweep
<1>19. ASSUME NEW b \in Boots, SweepSilent(b) PROVE GoneInv'
  BY <1>19 DEF SweepSilent, Lapse
<1>20. ASSUME NEW b \in Boots, NEW c \in Boots, SweepDown(b, c) PROVE GoneInv'
  BY <1>20 DEF SweepDown, Swept, CameUpInv
<1>21. ASSUME NEW b \in Boots, NEW c \in Boots, SweepFails(b, c) PROVE GoneInv'
  BY <1>21 DEF SweepFails, Swept, Lapse
<1>22. ASSUME NEW b \in Boots, Exit(b) PROVE GoneInv'
  BY <1>22 DEF Exit
<1>23. ASSUME NEW p \in Processes, ReapProxy(p) PROVE GoneInv'
  BY <1>23 DEF ReapProxy, Kill
<1>24. ASSUME NEW p \in Processes, ReapRelay(p) PROVE GoneInv'
  BY <1>24 DEF ReapRelay, Kill
<1>25. ASSUME NEW p \in Processes, Look(p) PROVE GoneInv'
  BY <1>25 DEF Look
<1>26. ASSUME NEW p \in Processes, Forget(p) PROVE GoneInv'
  BY <1>26 DEF Forget
<1>27. ASSUME NEW r \in Removers, NEW b \in Boots, NEW said \in BOOLEAN, Rm(r, b,
              said)
      PROVE  GoneInv'
  BY <1>27 DEF Rm, Takes
<1>28. ASSUME NEW r \in Removers, NEW b \in Boots, NEW said \in BOOLEAN, RmKeep(r, b,
              said)
      PROVE  GoneInv'
  BY <1>28 DEF RmKeep, Takes
<1>29. ASSUME NEW r \in Removers, AnswerPresent(r) PROVE GoneInv'
  BY <1>29 DEF AnswerPresent
<1>30. ASSUME NEW r \in Removers, AnswerAbsent(r) PROVE GoneInv'
  BY <1>30 DEF AnswerAbsent, CameUpInv
<1>31. ASSUME NEW r \in Removers, AnswerSilent(r) PROVE GoneInv'
  BY <1>31 DEF AnswerSilent
<1>32. ASSUME NEW r \in Removers, Find(r) PROVE GoneInv'
  BY <1>32 DEF Find, CameUpInv
<1>33. ASSUME NEW r \in Removers, FindSilent(r) PROVE GoneInv'
  BY <1>33 DEF FindSilent, Lapse
<1>34. ASSUME NEW r \in Removers, Stop(r) PROVE GoneInv'
  BY <1>34 DEF Stop, CameUpInv
<1>35. ASSUME NEW r \in Removers, StopFails(r) PROVE GoneInv'
  BY <1>35 DEF StopFails
<1>36. ASSUME NEW p \in Processes, Killed(p) PROVE GoneInv'
  BY <1>36 DEF Killed, Lapse
<1>37. ASSUME NEW b \in Boots, BoxStops(b) PROVE GoneInv'
  BY <1>37 DEF BoxStops, Lapse, CameUpInv
<1>38. ASSUME NEW b \in Boots, HoldsFiles(b) PROVE GoneInv'
  BY <1>38 DEF HoldsFiles
<1>39. CASE UNCHANGED vars
  BY <1>39 DEF vars
<1> HIDE <1>0 DEF GoneInv, Go, Running, Processes, Node, Spared, Detached,
     boots, boxes, interrupts, removals
<1> QED
  BY <1>1, <1>2, <1>3, <1>4, <1>5, <1>6, <1>7, <1>8, <1>9, <1>10, <1>11, <1>12,
       <1>13, <1>14, <1>15, <1>16, <1>17, <1>18, <1>19, <1>20, <1>21, <1>22,
       <1>23, <1>24, <1>25, <1>26, <1>27, <1>28, <1>29, <1>30, <1>31, <1>32,
       <1>33, <1>34, <1>35, <1>36, <1>37, <1>38, <1>39
     DEF Next, BootStep, ReapStep, RmStep, SweepStep, Rest

(* A box that is down writes no files. *)
LEMMA HeldInvStep ==
  ASSUME BoxTypeOK, CameUpInv, GoneInv, HeldInv, [Next]_vars
  PROVE HeldInv'
<1>0. /\ at \in [Processes -> Stages]
      /\ box \in [Boots -> {"none", "running", "gone"}]
      /\ held \in [Boots -> BOOLEAN]
      /\ target \in [Removers -> Boots \cup {Nobody}]
      /\ yes \in [Removers -> BOOLEAN]
      /\ Boots \cap Removers = {} /\ Nobody \notin Boots
  BY BoxAssumption DEF BoxTypeOK, BoxAssumption
<1> USE <1>0 DEF HeldInv, Go, Running, Processes, Node, Spared, Consents, boots,
     boxes, interrupts, removals
<1>1. ASSUME NEW b \in Boots, NEW k \in Kinds, NEW needed \in Grants, Begin(b, k,
             needed)
      PROVE  HeldInv'
  BY <1>1 DEF Begin
<1>2. ASSUME NEW b \in Boots, Provision(b) PROVE HeldInv'
  BY <1>2 DEF Provision
<1>3. ASSUME NEW b \in Boots, ProvisionFails(b) PROVE HeldInv'
  BY <1>3 DEF ProvisionFails
<1>4. ASSUME NEW b \in Boots, SpawnRelay(b) PROVE HeldInv'
  BY <1>4 DEF SpawnRelay
<1>5. ASSUME NEW b \in Boots, SpawnFails(b) PROVE HeldInv'
  BY <1>5 DEF SpawnFails
<1>6. ASSUME NEW b \in Boots, Up(b) PROVE HeldInv'
  BY <1>6 DEF Up
<1>7. ASSUME NEW b \in Boots, UpFails(b) PROVE HeldInv'
  BY <1>7 DEF UpFails
<1>8. ASSUME NEW b \in Boots, WriteRecord(b) PROVE HeldInv'
  BY <1>8 DEF WriteRecord
<1>9. ASSUME NEW b \in Boots, WriteFails(b) PROVE HeldInv'
  BY <1>9 DEF WriteFails, Lapse
<1>10. ASSUME NEW b \in Boots, Unwind(b) PROVE HeldInv'
  BY <1>10 DEF Unwind
<1>11. ASSUME NEW b \in Boots, Enter(b) PROVE HeldInv'
  BY <1>11 DEF Enter
<1>12. ASSUME NEW b \in Boots, Detach(b) PROVE HeldInv'
  BY <1>12 DEF Detach
<1>13. ASSUME NEW b \in Boots, Abandon(b) PROVE HeldInv'
  BY <1>13 DEF Abandon
<1>14. ASSUME NEW b \in Boots, CommandEnds(b) PROVE HeldInv'
  BY <1>14 DEF CommandEnds
<1>15. ASSUME NEW b \in Boots, Down(b) PROVE HeldInv'
  BY <1>15 DEF Down, AfterDown
<1>16. ASSUME NEW b \in Boots, DownFails(b) PROVE HeldInv'
  BY <1>16 DEF DownFails, AfterDown, Lapse
<1>17. ASSUME NEW b \in Boots, Interrupt(b) PROVE HeldInv'
  BY <1>17 DEF Interrupt
<1>18. ASSUME NEW b \in Boots, Sweep(b) PROVE HeldInv'
  BY <1>18 DEF Sweep
<1>19. ASSUME NEW b \in Boots, SweepSilent(b) PROVE HeldInv'
  BY <1>19 DEF SweepSilent, Lapse
<1>20. ASSUME NEW b \in Boots, NEW c \in Boots, SweepDown(b, c) PROVE HeldInv'
  BY <1>20 DEF SweepDown, Swept
<1>21. ASSUME NEW b \in Boots, NEW c \in Boots, SweepFails(b, c) PROVE HeldInv'
  BY <1>21 DEF SweepFails, Swept, Lapse
<1>22. ASSUME NEW b \in Boots, Exit(b) PROVE HeldInv'
  BY <1>22 DEF Exit
<1>23. ASSUME NEW p \in Processes, ReapProxy(p) PROVE HeldInv'
  BY <1>23 DEF ReapProxy, Kill
<1>24. ASSUME NEW p \in Processes, ReapRelay(p) PROVE HeldInv'
  BY <1>24 DEF ReapRelay, Kill
<1>25. ASSUME NEW p \in Processes, Look(p) PROVE HeldInv'
  BY <1>25 DEF Look
<1>26. ASSUME NEW p \in Processes, Forget(p) PROVE HeldInv'
  BY <1>26 DEF Forget
<1>27. ASSUME NEW r \in Removers, NEW b \in Boots, NEW said \in BOOLEAN, Rm(r, b,
              said)
      PROVE  HeldInv'
  BY <1>27 DEF Rm, Takes
<1>28. ASSUME NEW r \in Removers, NEW b \in Boots, NEW said \in BOOLEAN, RmKeep(r, b,
              said)
      PROVE  HeldInv'
  BY <1>28 DEF RmKeep, Takes
<1>29. ASSUME NEW r \in Removers, AnswerPresent(r) PROVE HeldInv'
  BY <1>29 DEF AnswerPresent
<1>30. ASSUME NEW r \in Removers, AnswerAbsent(r) PROVE HeldInv'
  BY <1>30 DEF AnswerAbsent
<1>31. ASSUME NEW r \in Removers, AnswerSilent(r) PROVE HeldInv'
  BY <1>31 DEF AnswerSilent
<1>32. ASSUME NEW r \in Removers, Find(r) PROVE HeldInv'
  BY <1>32 DEF Find
<1>33. ASSUME NEW r \in Removers, FindSilent(r) PROVE HeldInv'
  BY <1>33 DEF FindSilent, Lapse
<1>34. ASSUME NEW r \in Removers, Stop(r) PROVE HeldInv'
  BY <1>34 DEF Stop
<1>35. ASSUME NEW r \in Removers, StopFails(r) PROVE HeldInv'
  BY <1>35 DEF StopFails
<1>36. ASSUME NEW p \in Processes, Killed(p) PROVE HeldInv'
  BY <1>36 DEF Killed, Lapse
<1>37. ASSUME NEW b \in Boots, BoxStops(b) PROVE HeldInv'
  BY <1>37 DEF BoxStops, Lapse
<1>38. ASSUME NEW b \in Boots, HoldsFiles(b) PROVE HeldInv'
  BY <1>38 DEF HoldsFiles, GoneInv, CameUpInv
<1>39. CASE UNCHANGED vars
  BY <1>39 DEF vars
<1> HIDE <1>0 DEF HeldInv, Go, Running, Processes, Node, Spared, Consents,
     boots, boxes, interrupts, removals
<1> QED
  BY <1>1, <1>2, <1>3, <1>4, <1>5, <1>6, <1>7, <1>8, <1>9, <1>10, <1>11, <1>12,
       <1>13, <1>14, <1>15, <1>16, <1>17, <1>18, <1>19, <1>20, <1>21, <1>22,
       <1>23, <1>24, <1>25, <1>26, <1>27, <1>28, <1>29, <1>30, <1>31, <1>32,
       <1>33, <1>34, <1>35, <1>36, <1>37, <1>38, <1>39
     DEF Next, BootStep, ReapStep, RmStep, SweepStep, Rest

(* Only a removal takes a record from its boot. *)
LEMMA AbandonInvStep ==
  ASSUME BoxTypeOK, StartInv, CameUpInv, AbandonInv, [Next]_vars
  PROVE AbandonInv'
<1>0. /\ at \in [Processes -> Stages]
      /\ record \in [Boots -> BOOLEAN]
      /\ alive \in [Boots -> SUBSET {"proxy", "relay"}]
      /\ target \in [Removers -> Boots \cup {Nobody}]
      /\ needs \in [Boots -> SUBSET {"proxy", "relay"}]
      /\ kind \in [Boots -> AllKinds]
      /\ \A b \in Boots : alive[b] \subseteq needs[b]
      /\ Boots \cap Removers = {} /\ Nobody \notin Boots
  BY BoxAssumption DEF BoxTypeOK, BoxAssumption
<1> USE <1>0 DEF AbandonInv, Go, Running, Processes, Node, Removed, Detached,
     boots, boxes, interrupts, removals
<1>1. ASSUME NEW b \in Boots, NEW k \in Kinds, NEW needed \in Grants, Begin(b, k,
             needed)
      PROVE  AbandonInv'
  BY <1>1 DEF Begin, StartInv
<1>2. ASSUME NEW b \in Boots, Provision(b) PROVE AbandonInv'
  BY <1>2 DEF Provision, StartInv
<1>3. ASSUME NEW b \in Boots, ProvisionFails(b) PROVE AbandonInv'
  BY <1>3 DEF ProvisionFails
<1>4. ASSUME NEW b \in Boots, SpawnRelay(b) PROVE AbandonInv'
  BY <1>4 DEF SpawnRelay, StartInv
<1>5. ASSUME NEW b \in Boots, SpawnFails(b) PROVE AbandonInv'
  BY <1>5 DEF SpawnFails
<1>6. ASSUME NEW b \in Boots, Up(b) PROVE AbandonInv'
  BY <1>6 DEF Up
<1>7. ASSUME NEW b \in Boots, UpFails(b) PROVE AbandonInv'
  BY <1>7 DEF UpFails
<1>8. ASSUME NEW b \in Boots, WriteRecord(b) PROVE AbandonInv'
  BY <1>8 DEF WriteRecord, StartInv
<1>9. ASSUME NEW b \in Boots, WriteFails(b) PROVE AbandonInv'
  BY <1>9 DEF WriteFails, Lapse
<1>10. ASSUME NEW b \in Boots, Unwind(b) PROVE AbandonInv'
  BY <1>10 DEF Unwind
<1>11. ASSUME NEW b \in Boots, Enter(b) PROVE AbandonInv'
  BY <1>11 DEF Enter
<1>12. ASSUME NEW b \in Boots, Detach(b) PROVE AbandonInv'
  BY <1>12 DEF Detach
<1>13. ASSUME NEW b \in Boots, Abandon(b) PROVE AbandonInv'
  BY <1>13 DEF Abandon
<1>14. ASSUME NEW b \in Boots, CommandEnds(b) PROVE AbandonInv'
  BY <1>14 DEF CommandEnds
<1>15. ASSUME NEW b \in Boots, Down(b) PROVE AbandonInv'
  BY <1>15 DEF Down, AfterDown
<1>16. ASSUME NEW b \in Boots, DownFails(b) PROVE AbandonInv'
  BY <1>16 DEF DownFails, AfterDown, Lapse
<1>17. ASSUME NEW b \in Boots, Interrupt(b) PROVE AbandonInv'
  BY <1>17 DEF Interrupt
<1>18. ASSUME NEW b \in Boots, Sweep(b) PROVE AbandonInv'
  BY <1>18 DEF Sweep
<1>19. ASSUME NEW b \in Boots, SweepSilent(b) PROVE AbandonInv'
  BY <1>19 DEF SweepSilent, Lapse
<1>20. ASSUME NEW b \in Boots, NEW c \in Boots, SweepDown(b, c) PROVE AbandonInv'
  BY <1>20 DEF SweepDown, Swept
<1>21. ASSUME NEW b \in Boots, NEW c \in Boots, SweepFails(b, c) PROVE AbandonInv'
  BY <1>21 DEF SweepFails, Swept, Lapse
<1>22. ASSUME NEW b \in Boots, Exit(b) PROVE AbandonInv'
  BY <1>22 DEF Exit
<1>23. ASSUME NEW p \in Processes, ReapProxy(p) PROVE AbandonInv'
  BY <1>23 DEF ReapProxy, Kill, CameUpInv
<1>24. ASSUME NEW p \in Processes, ReapRelay(p) PROVE AbandonInv'
  <2>1. CASE p \in Removers
    BY <1>24, <2>1 DEF ReapRelay, Kill, CameUpInv
  <2>2. CASE p \in Boots
    <3>1. Removed(p) \/ alive'[p] = {}
      BY <1>24, <2>2 DEF ReapRelay, Kill
    <3>2. \A b \in Boots \ {p} : alive'[b] = alive[b] /\ at'[b] = at[b]
      BY <1>24, <2>2 DEF ReapRelay, Kill
    <3> QED
      BY <1>24, <2>2, <3>1, <3>2 DEF ReapRelay
  <2> QED
    BY <2>1, <2>2
<1>25. ASSUME NEW p \in Processes, Look(p) PROVE AbandonInv'
  BY <1>25 DEF Look
<1>26. ASSUME NEW p \in Processes, Forget(p) PROVE AbandonInv'
  BY <1>26 DEF Forget, CameUpInv
<1>27. ASSUME NEW r \in Removers, NEW b \in Boots, NEW said \in BOOLEAN, Rm(r, b,
              said)
      PROVE  AbandonInv'
  BY <1>27, ZenonT(40) DEF Rm, Takes, CameUpInv
<1>28. ASSUME NEW r \in Removers, NEW b \in Boots, NEW said \in BOOLEAN, RmKeep(r, b,
              said)
      PROVE  AbandonInv'
  BY <1>28, ZenonT(40) DEF RmKeep, Takes, CameUpInv
<1>29. ASSUME NEW r \in Removers, AnswerPresent(r) PROVE AbandonInv'
  BY <1>29 DEF AnswerPresent
<1>30. ASSUME NEW r \in Removers, AnswerAbsent(r) PROVE AbandonInv'
  BY <1>30 DEF AnswerAbsent
<1>31. ASSUME NEW r \in Removers, AnswerSilent(r) PROVE AbandonInv'
  BY <1>31 DEF AnswerSilent
<1>32. ASSUME NEW r \in Removers, Find(r) PROVE AbandonInv'
  BY <1>32 DEF Find
<1>33. ASSUME NEW r \in Removers, FindSilent(r) PROVE AbandonInv'
  BY <1>33 DEF FindSilent, Lapse
<1>34. ASSUME NEW r \in Removers, Stop(r) PROVE AbandonInv'
  BY <1>34 DEF Stop
<1>35. ASSUME NEW r \in Removers, StopFails(r) PROVE AbandonInv'
  BY <1>35 DEF StopFails
<1>36. ASSUME NEW p \in Processes, Killed(p) PROVE AbandonInv'
  BY <1>36 DEF Killed, Lapse
<1>37. ASSUME NEW b \in Boots, BoxStops(b) PROVE AbandonInv'
  BY <1>37 DEF BoxStops, Lapse
<1>38. ASSUME NEW b \in Boots, HoldsFiles(b) PROVE AbandonInv'
  BY <1>38 DEF HoldsFiles
<1>39. CASE UNCHANGED vars
  BY <1>39 DEF vars
<1> HIDE <1>0 DEF AbandonInv, Go, Running, Processes, Node, Removed, Detached,
     boots, boxes, interrupts, removals
<1> QED
  BY <1>1, <1>2, <1>3, <1>4, <1>5, <1>6, <1>7, <1>8, <1>9, <1>10, <1>11, <1>12,
       <1>13, <1>14, <1>15, <1>16, <1>17, <1>18, <1>19, <1>20, <1>21, <1>22,
       <1>23, <1>24, <1>25, <1>26, <1>27, <1>28, <1>29, <1>30, <1>31, <1>32,
       <1>33, <1>34, <1>35, <1>36, <1>37, <1>38, <1>39
     DEF Next, BootStep, ReapStep, RmStep, SweepStep, Rest

(* A boot that is interrupted has not touched what its box needs before it is down. *)
LEMMA InterruptInvStep ==
  ASSUME BoxTypeOK, StartInv, CameUpInv, GoneInv, DoorIsThere, InterruptInv, [Next]_vars
  PROVE InterruptInv'
<1>0. /\ at \in [Processes -> Stages]
      /\ box \in [Boots -> {"none", "running", "gone"}]
      /\ record \in [Boots -> BOOLEAN]
      /\ alive \in [Boots -> SUBSET {"proxy", "relay"}]
      /\ needs \in [Boots -> SUBSET {"proxy", "relay"}]
      /\ target \in [Removers -> Boots \cup {Nobody}]
      /\ kind \in [Boots -> AllKinds]
      /\ signal \in [Boots -> {"none", "caught", "sweeping"}]
      /\ Boots \cap Removers = {} /\ Nobody \notin Boots
  BY BoxAssumption DEF BoxTypeOK, BoxAssumption
<1> USE <1>0 DEF InterruptInv, Go, Running, Processes, Node, Spared, Detached,
     boots, boxes, interrupts, removals
<1>1. ASSUME NEW b \in Boots, NEW k \in Kinds, NEW needed \in Grants, Begin(b, k,
             needed)
      PROVE  InterruptInv'
  BY <1>1 DEF Begin, StartInv
<1>2. ASSUME NEW b \in Boots, Provision(b) PROVE InterruptInv'
  BY <1>2 DEF Provision
<1>3. ASSUME NEW b \in Boots, ProvisionFails(b) PROVE InterruptInv'
  BY <1>3 DEF ProvisionFails
<1>4. ASSUME NEW b \in Boots, SpawnRelay(b) PROVE InterruptInv'
  BY <1>4 DEF SpawnRelay
<1>5. ASSUME NEW b \in Boots, SpawnFails(b) PROVE InterruptInv'
  BY <1>5 DEF SpawnFails
<1>6. ASSUME NEW b \in Boots, Up(b) PROVE InterruptInv'
  BY <1>6 DEF Up, StartInv
<1>7. ASSUME NEW b \in Boots, UpFails(b) PROVE InterruptInv'
  BY <1>7 DEF UpFails
<1>8. ASSUME NEW b \in Boots, WriteRecord(b) PROVE InterruptInv'
  BY <1>8 DEF WriteRecord
<1>9. ASSUME NEW b \in Boots, WriteFails(b) PROVE InterruptInv'
  BY <1>9 DEF WriteFails, Lapse
<1>10. ASSUME NEW b \in Boots, Unwind(b) PROVE InterruptInv'
  BY <1>10 DEF Unwind, StartInv
<1>11. ASSUME NEW b \in Boots, Enter(b) PROVE InterruptInv'
  BY <1>11 DEF Enter
<1>12. ASSUME NEW b \in Boots, Detach(b) PROVE InterruptInv'
  BY <1>12 DEF Detach
<1>13. ASSUME NEW b \in Boots, Abandon(b) PROVE InterruptInv'
  BY <1>13 DEF Abandon
<1>14. ASSUME NEW b \in Boots, CommandEnds(b) PROVE InterruptInv'
  BY <1>14 DEF CommandEnds, DoorIsThere
<1>15. ASSUME NEW b \in Boots, Down(b) PROVE InterruptInv'
  BY <1>15 DEF Down, AfterDown
<1>16. ASSUME NEW b \in Boots, DownFails(b) PROVE InterruptInv'
  BY <1>16 DEF DownFails, AfterDown, Lapse
<1>17. ASSUME NEW b \in Boots, Interrupt(b) PROVE InterruptInv'
  BY <1>17 DEF Interrupt, Over, Ended
<1>18. ASSUME NEW b \in Boots, Sweep(b) PROVE InterruptInv'
  BY <1>18 DEF Sweep
<1>19. ASSUME NEW b \in Boots, SweepSilent(b) PROVE InterruptInv'
  BY <1>19 DEF SweepSilent, Lapse
<1>20. ASSUME NEW b \in Boots, NEW c \in Boots, SweepDown(b, c)
      PROVE  InterruptInv'
  BY <1>20 DEF SweepDown, Swept
<1>21. ASSUME NEW b \in Boots, NEW c \in Boots, SweepFails(b, c)
      PROVE  InterruptInv'
  BY <1>21 DEF SweepFails, Swept, Lapse
<1>22. ASSUME NEW b \in Boots, Exit(b) PROVE InterruptInv'
  BY <1>22 DEF Exit
<1>23. ASSUME NEW p \in Processes, ReapProxy(p) PROVE InterruptInv'
  <2>1. \/ p \in Boots /\ Detached(p)
        \/ box[Node(p)] = "gone"
        \/ ~Spared({"killed", "undowned"})
    BY <1>23 DEF ReapProxy, GoneInv
  <2>2. \A b \in Boots : b # Node(p) => alive'[b] = alive[b]
    BY <1>23 DEF ReapProxy, Kill
  <2> QED
    BY <1>23, <2>1, <2>2 DEF ReapProxy
<1>24. ASSUME NEW p \in Processes, ReapRelay(p) PROVE InterruptInv'
  <2>1. \/ p \in Boots /\ Detached(p)
        \/ box[Node(p)] = "gone"
        \/ ~Spared({"killed", "undowned"})
    BY <1>24 DEF ReapRelay, GoneInv
  <2>2. \A b \in Boots : b # Node(p) => alive'[b] = alive[b]
    BY <1>24 DEF ReapRelay, Kill
  <2> QED
    BY <1>24, <2>1, <2>2 DEF ReapRelay
<1>25. ASSUME NEW p \in Processes, Look(p) PROVE InterruptInv'
  BY <1>25 DEF Look
<1>26. ASSUME NEW p \in Processes, Forget(p) PROVE InterruptInv'
  BY <1>26 DEF Forget
<1>27. ASSUME NEW r \in Removers, NEW b \in Boots, NEW said \in BOOLEAN, Rm(r, b,
              said)
      PROVE  InterruptInv'
  BY <1>27 DEF Rm, Takes
<1>28. ASSUME NEW r \in Removers, NEW b \in Boots, NEW said \in BOOLEAN, RmKeep(r, b,
              said)
      PROVE  InterruptInv'
  BY <1>28 DEF RmKeep, Takes
<1>29. ASSUME NEW r \in Removers, AnswerPresent(r) PROVE InterruptInv'
  BY <1>29 DEF AnswerPresent
<1>30. ASSUME NEW r \in Removers, AnswerAbsent(r) PROVE InterruptInv'
  BY <1>30 DEF AnswerAbsent
<1>31. ASSUME NEW r \in Removers, AnswerSilent(r) PROVE InterruptInv'
  BY <1>31 DEF AnswerSilent
<1>32. ASSUME NEW r \in Removers, Find(r) PROVE InterruptInv'
  BY <1>32 DEF Find
<1>33. ASSUME NEW r \in Removers, FindSilent(r) PROVE InterruptInv'
  BY <1>33 DEF FindSilent, Lapse
<1>34. ASSUME NEW r \in Removers, Stop(r) PROVE InterruptInv'
  BY <1>34 DEF Stop
<1>35. ASSUME NEW r \in Removers, StopFails(r) PROVE InterruptInv'
  BY <1>35 DEF StopFails
<1>36. ASSUME NEW p \in Processes, Killed(p) PROVE InterruptInv'
  BY <1>36 DEF Killed, Lapse
<1>37. ASSUME NEW b \in Boots, BoxStops(b) PROVE InterruptInv'
  BY <1>37 DEF BoxStops, Lapse
<1>38. ASSUME NEW b \in Boots, HoldsFiles(b) PROVE InterruptInv'
  BY <1>38 DEF HoldsFiles
<1>39. CASE UNCHANGED vars
  BY <1>39 DEF vars
<1> HIDE <1>0 DEF InterruptInv, Go, Running, Processes, Node, Spared, Detached,
     boots, boxes, interrupts, removals
<1> QED
  BY <1>1, <1>2, <1>3, <1>4, <1>5, <1>6, <1>7, <1>8, <1>9, <1>10, <1>11, <1>12,
       <1>13, <1>14, <1>15, <1>16, <1>17, <1>18, <1>19, <1>20, <1>21, <1>22,
       <1>23, <1>24, <1>25, <1>26, <1>27, <1>28, <1>29, <1>30, <1>31, <1>32,
       <1>33, <1>34, <1>35, <1>36, <1>37, <1>38, <1>39
     DEF Next, BootStep, ReapStep, RmStep, SweepStep, Rest

(* A record goes after its box, or a fault is to blame. *)
LEMMA BoxIsTrackedStep ==
  ASSUME BoxTypeOK, StartInv, CameUpInv, GoneInv, BoxIsTracked, [Next]_vars
  PROVE BoxIsTracked'
<1>0. /\ at \in [Processes -> Stages]
      /\ box \in [Boots -> {"none", "running", "gone"}]
      /\ record \in [Boots -> BOOLEAN]
      /\ target \in [Removers -> Boots \cup {Nobody}]
      /\ Boots \cap Removers = {} /\ Nobody \notin Boots
  BY BoxAssumption DEF BoxTypeOK, BoxAssumption
<1> USE <1>0 DEF BoxIsTracked, Go, Running, Processes, Node, Spared, boots,
     boxes, interrupts, removals
<1>1. ASSUME NEW b \in Boots, NEW k \in Kinds, NEW needed \in Grants, Begin(b, k,
             needed)
      PROVE  BoxIsTracked'
  BY <1>1 DEF Begin
<1>2. ASSUME NEW b \in Boots, Provision(b) PROVE BoxIsTracked'
  BY <1>2 DEF Provision
<1>3. ASSUME NEW b \in Boots, ProvisionFails(b) PROVE BoxIsTracked'
  BY <1>3 DEF ProvisionFails
<1>4. ASSUME NEW b \in Boots, SpawnRelay(b) PROVE BoxIsTracked'
  BY <1>4 DEF SpawnRelay
<1>5. ASSUME NEW b \in Boots, SpawnFails(b) PROVE BoxIsTracked'
  BY <1>5 DEF SpawnFails
<1>6. ASSUME NEW b \in Boots, Up(b) PROVE BoxIsTracked'
  BY <1>6 DEF Up
<1>7. ASSUME NEW b \in Boots, UpFails(b) PROVE BoxIsTracked'
  BY <1>7 DEF UpFails
<1>8. ASSUME NEW b \in Boots, WriteRecord(b) PROVE BoxIsTracked'
  BY <1>8 DEF WriteRecord
<1>9. ASSUME NEW b \in Boots, WriteFails(b) PROVE BoxIsTracked'
  BY <1>9 DEF WriteFails, Lapse
<1>10. ASSUME NEW b \in Boots, Unwind(b) PROVE BoxIsTracked'
  BY <1>10 DEF Unwind
<1>11. ASSUME NEW b \in Boots, Enter(b) PROVE BoxIsTracked'
  BY <1>11 DEF Enter
<1>12. ASSUME NEW b \in Boots, Detach(b) PROVE BoxIsTracked'
  BY <1>12 DEF Detach
<1>13. ASSUME NEW b \in Boots, Abandon(b) PROVE BoxIsTracked'
  BY <1>13 DEF Abandon
<1>14. ASSUME NEW b \in Boots, CommandEnds(b) PROVE BoxIsTracked'
  BY <1>14 DEF CommandEnds
<1>15. ASSUME NEW b \in Boots, Down(b) PROVE BoxIsTracked'
  BY <1>15 DEF Down, AfterDown
<1>16. ASSUME NEW b \in Boots, DownFails(b) PROVE BoxIsTracked'
  BY <1>16 DEF DownFails, AfterDown, Lapse
<1>17. ASSUME NEW b \in Boots, Interrupt(b) PROVE BoxIsTracked'
  BY <1>17 DEF Interrupt
<1>18. ASSUME NEW b \in Boots, Sweep(b) PROVE BoxIsTracked'
  BY <1>18 DEF Sweep
<1>19. ASSUME NEW b \in Boots, SweepSilent(b) PROVE BoxIsTracked'
  BY <1>19 DEF SweepSilent, Lapse
<1>20. ASSUME NEW b \in Boots, NEW c \in Boots, SweepDown(b, c)
      PROVE  BoxIsTracked'
  BY <1>20 DEF SweepDown, Swept
<1>21. ASSUME NEW b \in Boots, NEW c \in Boots, SweepFails(b, c)
      PROVE  BoxIsTracked'
  BY <1>21 DEF SweepFails, Swept, Lapse
<1>22. ASSUME NEW b \in Boots, Exit(b) PROVE BoxIsTracked'
  BY <1>22 DEF Exit, Booting
<1>23. ASSUME NEW p \in Processes, ReapProxy(p) PROVE BoxIsTracked'
  BY <1>23 DEF ReapProxy, Kill
<1>24. ASSUME NEW p \in Processes, ReapRelay(p) PROVE BoxIsTracked'
  BY <1>24 DEF ReapRelay, Kill
<1>25. ASSUME NEW p \in Processes, Look(p) PROVE BoxIsTracked'
  BY <1>25 DEF Look
<1>26. ASSUME NEW p \in Processes, Forget(p) PROVE BoxIsTracked'
  BY <1>26 DEF Forget, GoneInv
<1>27. ASSUME NEW r \in Removers, NEW b \in Boots, NEW said \in BOOLEAN, Rm(r, b,
              said)
      PROVE  BoxIsTracked'
  BY <1>27 DEF Rm, Takes
<1>28. ASSUME NEW r \in Removers, NEW b \in Boots, NEW said \in BOOLEAN, RmKeep(r, b,
              said)
      PROVE  BoxIsTracked'
  BY <1>28 DEF RmKeep, Takes
<1>29. ASSUME NEW r \in Removers, AnswerPresent(r) PROVE BoxIsTracked'
  BY <1>29 DEF AnswerPresent
<1>30. ASSUME NEW r \in Removers, AnswerAbsent(r) PROVE BoxIsTracked'
  BY <1>30 DEF AnswerAbsent
<1>31. ASSUME NEW r \in Removers, AnswerSilent(r) PROVE BoxIsTracked'
  BY <1>31 DEF AnswerSilent
<1>32. ASSUME NEW r \in Removers, Find(r) PROVE BoxIsTracked'
  BY <1>32 DEF Find
<1>33. ASSUME NEW r \in Removers, FindSilent(r) PROVE BoxIsTracked'
  BY <1>33 DEF FindSilent, Lapse
<1>34. ASSUME NEW r \in Removers, Stop(r) PROVE BoxIsTracked'
  BY <1>34 DEF Stop
<1>35. ASSUME NEW r \in Removers, StopFails(r) PROVE BoxIsTracked'
  BY <1>35 DEF StopFails
<1>36. ASSUME NEW p \in Processes, Killed(p) PROVE BoxIsTracked'
  BY <1>36 DEF Killed, Lapse
<1>37. ASSUME NEW b \in Boots, BoxStops(b) PROVE BoxIsTracked'
  BY <1>37 DEF BoxStops, Lapse
<1>38. ASSUME NEW b \in Boots, HoldsFiles(b) PROVE BoxIsTracked'
  BY <1>38 DEF HoldsFiles
<1>39. CASE UNCHANGED vars
  BY <1>39 DEF vars
<1> HIDE <1>0 DEF BoxIsTracked, Go, Running, Processes, Node, Spared, boots,
     boxes, interrupts, removals
<1> QED
  BY <1>1, <1>2, <1>3, <1>4, <1>5, <1>6, <1>7, <1>8, <1>9, <1>10, <1>11, <1>12,
       <1>13, <1>14, <1>15, <1>16, <1>17, <1>18, <1>19, <1>20, <1>21, <1>22,
       <1>23, <1>24, <1>25, <1>26, <1>27, <1>28, <1>29, <1>30, <1>31, <1>32,
       <1>33, <1>34, <1>35, <1>36, <1>37, <1>38, <1>39
     DEF Next, BootStep, ReapStep, RmStep, SweepStep, Rest

(* A process goes after its box, or a fault is to blame. *)
LEMMA DoorIsThereStep ==
  ASSUME BoxTypeOK, StartInv, CameUpInv, GoneInv, InterruptInv, DoorIsThere, [Next]_vars
  PROVE DoorIsThere'
<1>0. /\ at \in [Processes -> Stages]
      /\ box \in [Boots -> {"none", "running", "gone"}]
      /\ record \in [Boots -> BOOLEAN]
      /\ alive \in [Boots -> SUBSET {"proxy", "relay"}]
      /\ needs \in [Boots -> SUBSET {"proxy", "relay"}]
      /\ target \in [Removers -> Boots \cup {Nobody}]
      /\ Boots \cap Removers = {} /\ Nobody \notin Boots
  BY BoxAssumption DEF BoxTypeOK, BoxAssumption
<1> USE <1>0 DEF DoorIsThere, Go, Running, Processes, Node, Spared, boots,
     boxes, interrupts, removals
<1>1. ASSUME NEW b \in Boots, NEW k \in Kinds, NEW needed \in Grants, Begin(b, k,
             needed)
      PROVE  DoorIsThere'
  BY <1>1 DEF Begin, StartInv
<1>2. ASSUME NEW b \in Boots, Provision(b) PROVE DoorIsThere'
  BY <1>2 DEF Provision, StartInv
<1>3. ASSUME NEW b \in Boots, ProvisionFails(b) PROVE DoorIsThere'
  BY <1>3 DEF ProvisionFails
<1>4. ASSUME NEW b \in Boots, SpawnRelay(b) PROVE DoorIsThere'
  BY <1>4 DEF SpawnRelay, StartInv
<1>5. ASSUME NEW b \in Boots, SpawnFails(b) PROVE DoorIsThere'
  BY <1>5 DEF SpawnFails
<1>6. ASSUME NEW b \in Boots, Up(b) PROVE DoorIsThere'
  BY <1>6 DEF Up, StartInv
<1>7. ASSUME NEW b \in Boots, UpFails(b) PROVE DoorIsThere'
  BY <1>7 DEF UpFails
<1>8. ASSUME NEW b \in Boots, WriteRecord(b) PROVE DoorIsThere'
  BY <1>8 DEF WriteRecord, StartInv
<1>9. ASSUME NEW b \in Boots, WriteFails(b) PROVE DoorIsThere'
  BY <1>9 DEF WriteFails, Lapse
<1>10. ASSUME NEW b \in Boots, Unwind(b) PROVE DoorIsThere'
  BY <1>10 DEF Unwind, StartInv
<1>11. ASSUME NEW b \in Boots, Enter(b) PROVE DoorIsThere'
  BY <1>11 DEF Enter
<1>12. ASSUME NEW b \in Boots, Detach(b) PROVE DoorIsThere'
  BY <1>12 DEF Detach
<1>13. ASSUME NEW b \in Boots, Abandon(b) PROVE DoorIsThere'
  BY <1>13 DEF Abandon
<1>14. ASSUME NEW b \in Boots, CommandEnds(b) PROVE DoorIsThere'
  BY <1>14 DEF CommandEnds
<1>15. ASSUME NEW b \in Boots, Down(b) PROVE DoorIsThere'
  BY <1>15 DEF Down, AfterDown
<1>16. ASSUME NEW b \in Boots, DownFails(b) PROVE DoorIsThere'
  BY <1>16 DEF DownFails, AfterDown, Lapse
<1>17. ASSUME NEW b \in Boots, Interrupt(b) PROVE DoorIsThere'
  BY <1>17 DEF Interrupt
<1>18. ASSUME NEW b \in Boots, Sweep(b) PROVE DoorIsThere'
  BY <1>18 DEF Sweep
<1>19. ASSUME NEW b \in Boots, SweepSilent(b) PROVE DoorIsThere'
  BY <1>19 DEF SweepSilent, Lapse
<1>20. ASSUME NEW b \in Boots, NEW c \in Boots, SweepDown(b, c) PROVE DoorIsThere'
  BY <1>20 DEF SweepDown, Swept
<1>21. ASSUME NEW b \in Boots, NEW c \in Boots, SweepFails(b, c)
      PROVE  DoorIsThere'
  BY <1>21 DEF SweepFails, Swept, Lapse
<1>22. ASSUME NEW b \in Boots, Exit(b) PROVE DoorIsThere'
  BY <1>22 DEF Exit, GoneInv, InterruptInv
<1>23. ASSUME NEW p \in Processes, ReapProxy(p) PROVE DoorIsThere'
  BY <1>23 DEF ReapProxy, Kill, GoneInv
<1>24. ASSUME NEW p \in Processes, ReapRelay(p) PROVE DoorIsThere'
  BY <1>24, ZenonT(40) DEF ReapRelay, Kill, GoneInv, Detached
<1>25. ASSUME NEW p \in Processes, Look(p) PROVE DoorIsThere'
  BY <1>25 DEF Look
<1>26. ASSUME NEW p \in Processes, Forget(p) PROVE DoorIsThere'
  BY <1>26 DEF Forget
<1>27. ASSUME NEW r \in Removers, NEW b \in Boots, NEW said \in BOOLEAN, Rm(r, b,
              said)
      PROVE  DoorIsThere'
  BY <1>27 DEF Rm, Takes
<1>28. ASSUME NEW r \in Removers, NEW b \in Boots, NEW said \in BOOLEAN, RmKeep(r, b,
              said)
      PROVE  DoorIsThere'
  BY <1>28 DEF RmKeep, Takes
<1>29. ASSUME NEW r \in Removers, AnswerPresent(r) PROVE DoorIsThere'
  BY <1>29 DEF AnswerPresent
<1>30. ASSUME NEW r \in Removers, AnswerAbsent(r) PROVE DoorIsThere'
  BY <1>30 DEF AnswerAbsent
<1>31. ASSUME NEW r \in Removers, AnswerSilent(r) PROVE DoorIsThere'
  BY <1>31 DEF AnswerSilent
<1>32. ASSUME NEW r \in Removers, Find(r) PROVE DoorIsThere'
  BY <1>32 DEF Find
<1>33. ASSUME NEW r \in Removers, FindSilent(r) PROVE DoorIsThere'
  BY <1>33 DEF FindSilent, Lapse
<1>34. ASSUME NEW r \in Removers, Stop(r) PROVE DoorIsThere'
  BY <1>34 DEF Stop
<1>35. ASSUME NEW r \in Removers, StopFails(r) PROVE DoorIsThere'
  BY <1>35 DEF StopFails
<1>36. ASSUME NEW p \in Processes, Killed(p) PROVE DoorIsThere'
  BY <1>36 DEF Killed, Lapse
<1>37. ASSUME NEW b \in Boots, BoxStops(b) PROVE DoorIsThere'
  BY <1>37 DEF BoxStops, Lapse
<1>38. ASSUME NEW b \in Boots, HoldsFiles(b) PROVE DoorIsThere'
  BY <1>38 DEF HoldsFiles
<1>39. CASE UNCHANGED vars
  BY <1>39 DEF vars
<1> HIDE <1>0 DEF DoorIsThere, Go, Running, Processes, Node, Spared, boots,
     boxes, interrupts, removals
<1> QED
  BY <1>1, <1>2, <1>3, <1>4, <1>5, <1>6, <1>7, <1>8, <1>9, <1>10, <1>11, <1>12,
       <1>13, <1>14, <1>15, <1>16, <1>17, <1>18, <1>19, <1>20, <1>21, <1>22,
       <1>23, <1>24, <1>25, <1>26, <1>27, <1>28, <1>29, <1>30, <1>31, <1>32,
       <1>33, <1>34, <1>35, <1>36, <1>37, <1>38, <1>39
     DEF Next, BootStep, ReapStep, RmStep, SweepStep, Rest

(* A boot that ends in failure has undone what it did. *)
LEMMA FailedLeavesNothingStep ==
  ASSUME BoxTypeOK, StartInv, CameUpInv, AbandonInv, FailedLeavesNothing, [Next]_vars
  PROVE FailedLeavesNothing'
<1>0. /\ at \in [Processes -> Stages]
      /\ box \in [Boots -> {"none", "running", "gone"}]
      /\ alive \in [Boots -> SUBSET {"proxy", "relay"}]
      /\ needs \in [Boots -> SUBSET {"proxy", "relay"}]
      /\ \A b \in Boots : alive[b] \subseteq needs[b]
      /\ target \in [Removers -> Boots \cup {Nobody}]
      /\ Boots \cap Removers = {} /\ Nobody \notin Boots
  BY BoxAssumption DEF BoxTypeOK, BoxAssumption
<1> USE <1>0 DEF FailedLeavesNothing, Go, Running, Processes, Node, Spared,
     boots, boxes, interrupts, removals
<1>1. ASSUME NEW b \in Boots, NEW k \in Kinds, NEW needed \in Grants, Begin(b, k,
             needed)
      PROVE  FailedLeavesNothing'
  BY <1>1 DEF Begin
<1>2. ASSUME NEW b \in Boots, Provision(b) PROVE FailedLeavesNothing'
  BY <1>2 DEF Provision
<1>3. ASSUME NEW b \in Boots, ProvisionFails(b) PROVE FailedLeavesNothing'
  BY <1>3 DEF ProvisionFails, StartInv
<1>4. ASSUME NEW b \in Boots, SpawnRelay(b) PROVE FailedLeavesNothing'
  BY <1>4 DEF SpawnRelay
<1>5. ASSUME NEW b \in Boots, SpawnFails(b) PROVE FailedLeavesNothing'
  BY <1>5 DEF SpawnFails
<1>6. ASSUME NEW b \in Boots, Up(b) PROVE FailedLeavesNothing'
  BY <1>6 DEF Up
<1>7. ASSUME NEW b \in Boots, UpFails(b) PROVE FailedLeavesNothing'
  BY <1>7 DEF UpFails
<1>8. ASSUME NEW b \in Boots, WriteRecord(b) PROVE FailedLeavesNothing'
  BY <1>8 DEF WriteRecord
<1>9. ASSUME NEW b \in Boots, WriteFails(b) PROVE FailedLeavesNothing'
  BY <1>9 DEF WriteFails, Lapse
<1>10. ASSUME NEW b \in Boots, Unwind(b) PROVE FailedLeavesNothing'
  BY <1>10 DEF Unwind, StartInv
<1>11. ASSUME NEW b \in Boots, Enter(b) PROVE FailedLeavesNothing'
  BY <1>11 DEF Enter
<1>12. ASSUME NEW b \in Boots, Detach(b) PROVE FailedLeavesNothing'
  BY <1>12 DEF Detach
<1>13. ASSUME NEW b \in Boots, Abandon(b) PROVE FailedLeavesNothing'
  BY <1>13 DEF Abandon
<1>14. ASSUME NEW b \in Boots, CommandEnds(b) PROVE FailedLeavesNothing'
  BY <1>14 DEF CommandEnds
<1>15. ASSUME NEW b \in Boots, Down(b) PROVE FailedLeavesNothing'
  BY <1>15 DEF Down, AfterDown, AbandonInv, Removed, Detached
<1>16. ASSUME NEW b \in Boots, DownFails(b) PROVE FailedLeavesNothing'
  BY <1>16 DEF DownFails, AfterDown, Lapse, AbandonInv, Removed, Detached
<1>17. ASSUME NEW b \in Boots, Interrupt(b) PROVE FailedLeavesNothing'
  BY <1>17 DEF Interrupt
<1>18. ASSUME NEW b \in Boots, Sweep(b) PROVE FailedLeavesNothing'
  BY <1>18 DEF Sweep
<1>19. ASSUME NEW b \in Boots, SweepSilent(b) PROVE FailedLeavesNothing'
  BY <1>19 DEF SweepSilent, Lapse
<1>20. ASSUME NEW b \in Boots, NEW c \in Boots, SweepDown(b, c)
      PROVE  FailedLeavesNothing'
  BY <1>20 DEF SweepDown, Swept
<1>21. ASSUME NEW b \in Boots, NEW c \in Boots, SweepFails(b, c)
      PROVE  FailedLeavesNothing'
  BY <1>21 DEF SweepFails, Swept, Lapse
<1>22. ASSUME NEW b \in Boots, Exit(b) PROVE FailedLeavesNothing'
  BY <1>22 DEF Exit
<1>23. ASSUME NEW p \in Processes, ReapProxy(p) PROVE FailedLeavesNothing'
  BY <1>23 DEF ReapProxy, Kill
<1>24. ASSUME NEW p \in Processes, ReapRelay(p) PROVE FailedLeavesNothing'
  BY <1>24 DEF ReapRelay, Kill
<1>25. ASSUME NEW p \in Processes, Look(p) PROVE FailedLeavesNothing'
  BY <1>25 DEF Look
<1>26. ASSUME NEW p \in Processes, Forget(p) PROVE FailedLeavesNothing'
  BY <1>26 DEF Forget
<1>27. ASSUME NEW r \in Removers, NEW b \in Boots, NEW said \in BOOLEAN, Rm(r, b,
              said)
      PROVE  FailedLeavesNothing'
  <2>1. \A c \in Boots : Removed(c) => Removed(c)'
    BY <1>27 DEF Rm, Takes, CameUpInv, Removed
  <2> QED
    BY <1>27, <2>1 DEF Rm, Takes, Removed
<1>28. ASSUME NEW r \in Removers, NEW b \in Boots, NEW said \in BOOLEAN, RmKeep(r, b,
              said)
      PROVE  FailedLeavesNothing'
  <2>1. \A c \in Boots : Removed(c) => Removed(c)'
    BY <1>28 DEF RmKeep, Takes, CameUpInv, Removed
  <2> QED
    BY <1>28, <2>1 DEF RmKeep, Takes, Removed
<1>29. ASSUME NEW r \in Removers, AnswerPresent(r) PROVE FailedLeavesNothing'
  BY <1>29 DEF AnswerPresent
<1>30. ASSUME NEW r \in Removers, AnswerAbsent(r) PROVE FailedLeavesNothing'
  BY <1>30 DEF AnswerAbsent
<1>31. ASSUME NEW r \in Removers, AnswerSilent(r) PROVE FailedLeavesNothing'
  BY <1>31 DEF AnswerSilent
<1>32. ASSUME NEW r \in Removers, Find(r) PROVE FailedLeavesNothing'
  BY <1>32 DEF Find
<1>33. ASSUME NEW r \in Removers, FindSilent(r) PROVE FailedLeavesNothing'
  BY <1>33 DEF FindSilent, Lapse
<1>34. ASSUME NEW r \in Removers, Stop(r) PROVE FailedLeavesNothing'
  BY <1>34 DEF Stop
<1>35. ASSUME NEW r \in Removers, StopFails(r) PROVE FailedLeavesNothing'
  BY <1>35 DEF StopFails
<1>36. ASSUME NEW p \in Processes, Killed(p) PROVE FailedLeavesNothing'
  BY <1>36 DEF Killed, Lapse
<1>37. ASSUME NEW b \in Boots, BoxStops(b) PROVE FailedLeavesNothing'
  BY <1>37 DEF BoxStops, Lapse
<1>38. ASSUME NEW b \in Boots, HoldsFiles(b) PROVE FailedLeavesNothing'
  BY <1>38 DEF HoldsFiles
<1>39. CASE UNCHANGED vars
  BY <1>39 DEF vars
<1> HIDE <1>0 DEF FailedLeavesNothing, Go, Running, Processes, Node, Spared,
     boots, boxes, interrupts, removals
<1> QED
  BY <1>1, <1>2, <1>3, <1>4, <1>5, <1>6, <1>7, <1>8, <1>9, <1>10, <1>11, <1>12,
       <1>13, <1>14, <1>15, <1>16, <1>17, <1>18, <1>19, <1>20, <1>21, <1>22,
       <1>23, <1>24, <1>25, <1>26, <1>27, <1>28, <1>29, <1>30, <1>31, <1>32,
       <1>33, <1>34, <1>35, <1>36, <1>37, <1>38, <1>39
     DEF Next, BootStep, ReapStep, RmStep, SweepStep, Rest

(* Nobody has started anything.                                              *)
LEMMA InitIInv == Init => IInv
<1> SUFFICES ASSUME Init PROVE IInv
  OBVIOUS
<1> USE BoxAssumption DEF Init, BoxAssumption, Spared, Running, Detached, Removed, Node,
     Processes
<1>1. BoxTypeOK
  BY DEF BoxTypeOK, Stages, AllKinds
<1>2. StartInv /\ CameUpInv /\ InterruptInv
  BY DEF StartInv, CameUpInv, InterruptInv
<1>3. GoneInv /\ HeldInv /\ AbandonInv
  BY DEF GoneInv, HeldInv, AbandonInv
<1>4. BoxIsTracked /\ DoorIsThere /\ FailedLeavesNothing
  BY DEF BoxIsTracked, DoorIsThere, FailedLeavesNothing
<1> QED
  BY <1>1, <1>2, <1>3, <1>4 DEF IInv

LEMMA IInvStep == ASSUME IInv, [Next]_vars PROVE IInv'
  BY BoxTypeOKStep, StartInvStep, CameUpInvStep, GoneInvStep, HeldInvStep, AbandonInvStep,
     InterruptInvStep, BoxIsTrackedStep, DoorIsThereStep, FailedLeavesNothingStep DEF IInv

(* The inductive invariant.                                                  *)
THEOREM Invariant == Spec => []IInv
  BY InitIInv, IInvStep, PTL DEF Spec

--------------------------------------------------------------------------------
(* Theorems.                                                                 *)

\* Processes, boxes, records and removals keep their types, and nothing runs for a box
\* that its boot did not start for it.
THEOREM BoxTypeCorrect == Spec => []BoxTypeOK
  BY Invariant, PTL DEF IInv

\* What runs is recorded, however many boots, removals and interrupts there are and
\* wherever they get between each other's steps, but for the faults named.
THEOREM BoxesTracked == Spec => []BoxIsTracked
  BY Invariant, PTL DEF IInv

\* A recorded box that runs has its relay and its proxy.
THEOREM DoorsThere == Spec => []DoorIsThere
  BY Invariant, PTL DEF IInv

\* A boot that fails, at whatever step, leaves nothing behind.
THEOREM FailuresUndone == Spec => []FailedLeavesNothing
  BY Invariant, PTL DEF IInv

(* Files go with a node, and come with a box that runs.                      *)
LEMMA HeldSteps ==
  ASSUME [Next]_vars
  PROVE  \/ held' = held
         \/ \E p \in Processes : Forget(p)
         \/ \E b \in Boots : HoldsFiles(b)
<1> USE DEF boots, boxes, interrupts, removals
<1>1. ASSUME NEW b \in Boots, NEW k \in Kinds, NEW needed \in Grants, Begin(b, k, needed)
      PROVE  held' = held
  BY <1>1 DEF Begin
<1>2. ASSUME NEW b \in Boots, BootStep(b) PROVE held' = held
  BY <1>2 DEF BootStep, Provision, ProvisionFails, SpawnRelay, SpawnFails, Up, UpFails,
     WriteRecord, WriteFails, Unwind, Enter, Detach, Abandon, Down, DownFails
<1>3. ASSUME NEW b \in Boots, CommandEnds(b) \/ Interrupt(b) \/ SweepStep(b) \/ BoxStops(b)
      PROVE  held' = held
  BY <1>3 DEF CommandEnds, Interrupt, SweepStep, Sweep, SweepSilent, Exit, SweepDown,
     SweepFails, Swept, BoxStops
<1>4. ASSUME NEW r \in Removers, NEW b \in Boots, NEW said \in BOOLEAN,
             Rm(r, b, said) \/ RmKeep(r, b, said)
      PROVE  held' = held
  BY <1>4 DEF Rm, RmKeep, Takes
<1>5. ASSUME NEW r \in Removers, RmStep(r) PROVE held' = held
  BY <1>5 DEF RmStep, AnswerPresent, AnswerAbsent, AnswerSilent, Find, FindSilent, Stop,
     StopFails
<1>6. ASSUME NEW p \in Processes, ReapProxy(p) \/ ReapRelay(p) \/ Look(p) \/ Killed(p)
      PROVE  held' = held
  BY <1>6 DEF ReapProxy, ReapRelay, Look, Killed
<1>7. CASE UNCHANGED vars
  BY <1>7 DEF vars
<1> HIDE DEF boots, boxes, interrupts, removals
<1> QED
  BY <1>1, <1>2, <1>3, <1>4, <1>5, <1>6, <1>7 DEF Next, ReapStep, Rest

\* Held files go only with somebody's yes, whoever else boots, removes or writes.
THEOREM HeldAsked == Spec => HeldIsAsked
<1> DEFINE Asked ==
      \A b \in Boots :
          held[b] /\ ~held'[b] =>
              \/ \E r \in Removers : target[r] = b /\ yes[r]
              \/ ~Spared({"undowned", "silent"})
<1>1. ASSUME IInv, [Next]_vars PROVE Asked
  <2>1. held \in [Boots -> BOOLEAN]
    BY <1>1 DEF IInv, BoxTypeOK
  <2>2. CASE held' = held
    BY <2>2
  <2>3. ASSUME NEW p \in Processes, Forget(p) PROVE Asked
    <3>1. held[Node(p)] => Consents(p) \/ ~Spared({"undowned", "silent"})
      BY <1>1, <2>3 DEF IInv, HeldInv, Forget
    <3>2. \A b \in Boots : b # Node(p) => held'[b] = held[b]
      BY <2>1, <2>3 DEF Forget
    <3>3. Consents(p) => p \in Removers /\ target[p] = Node(p) /\ yes[p]
      BY BoxAssumption DEF Consents, Node, BoxAssumption
    <3> QED
      BY <3>1, <3>2, <3>3
  <2>4. ASSUME NEW b \in Boots, HoldsFiles(b) PROVE Asked
    BY <2>1, <2>4 DEF HoldsFiles
  <2> QED
    BY <1>1, <2>2, <2>3, <2>4, HeldSteps
<1>2. [][Asked]_vars <=> HeldIsAsked
  BY DEF HeldIsAsked
<1> HIDE DEF Asked
<1> QED
  BY <1>1, <1>2, Invariant, PTL DEF Spec
================================================================================
