------------------------------- MODULE NameProofs -------------------------------
(***************************************************************************)
(* Theorems about NameClaim for any number of boots that ask for one name,   *)
(* wherever they die.                                                       *)
(***************************************************************************)
EXTENDS NameClaim, TLAPS

(* A box runs once its boot has booted it, a record is a boot's that is        *)
(* through, a marker one's that got its claim; only a boot past its listing    *)
(* has cleared anything.                                                     *)
BootInv ==
    \A b \in Boots :
        /\ b \in running => at[b] \in {"booted", "up", "dead"}
        /\ record = b => at[b] = "up"
        /\ marker = b => at[b] \in {"claimed", "booted", "up", "dead"}
        /\ at[b] \in {"new", "judge", "reap"} => cleared[b] = {}
        /\ at[b] \in {"judge", "reap"} => saw[b] # NoBoot

(* Nobody but z, if anybody, has reaped a holder or reclaimed litter.         *)
Sole(z) == \A b \in Boots \ {z} : cleared[b] = {}

(* The name's directory is b's: it made it, and is neither dead nor gone.     *)
Claimant(b) == at[b] = "mark" \/ Holds(b)

(* What stands in the directory is its claimant's.                            *)
Stands(b) ==
    /\ dir
    /\ at[b] = "mark" => marker = NoBoot /\ record = NoBoot
    /\ at[b] \in {"claimed", "booted"} => marker = b /\ ~stale /\ record = NoBoot
    /\ at[b] = "up" => marker = b /\ record = b

(* What the one that may clear the name has found out holds when it does: the  *)
(* holder it listed is still the record, and is gone, when it reaps; what it   *)
(* takes for litter, on the second look, is nobody's.                         *)
FoundOut(z) ==
    /\ at[z] \in {"judge", "reap"} => record = saw[z]
    /\ at[z] = "reap" => saw[z] \notin running
    /\ at[z] \in {"record", "age", "sleep", "record again", "age again", "remove"} => dir
    /\ at[z] \in {"record again", "age again", "remove"} => \A b \in Boots : at[b] # "mark"
    /\ at[z] = "age again" => \A b \in Boots : Claimant(b) => marker = b /\ ~stale
    /\ at[z] = "remove" => \A b \in Boots : ~Claimant(b)

SoleInv ==
    \A z \in Boots : Sole(z) =>
        /\ \A b, c \in Boots : Claimant(b) /\ Claimant(c) => b = c
        /\ \A b \in Boots : Claimant(b) => Stands(b)
        /\ FoundOut(z)

IInv == NameTypeOK /\ BootInv /\ SoleInv

--------------------------------------------------------------------------------
(* Each part of the invariant is kept by every step.                        *)

(* Nothing is written that is not of its type.                              *)
LEMMA NameTypeOKStep ==
  ASSUME NameTypeOK, [Next]_vars
  PROVE  NameTypeOK'
<1> USE NameAssumption DEF NameTypeOK, NameAssumption, Stages, Taking
<1>1. ASSUME NEW b \in Boots, List(b) PROVE NameTypeOK'
  BY <1>1 DEF List, Go, files
<1>2. ASSUME NEW b \in Boots, JudgeActive(b) PROVE NameTypeOK'
  BY <1>2 DEF JudgeActive, Go, files
<1>3. ASSUME NEW b \in Boots, JudgeUnknown(b) PROVE NameTypeOK'
  BY <1>3 DEF JudgeUnknown, Go, files
<1>4. ASSUME NEW b \in Boots, JudgeInactive(b) PROVE NameTypeOK'
  BY <1>4 DEF JudgeInactive, Go, files
<1>5. ASSUME NEW b \in Boots, Reap(b) PROVE NameTypeOK'
  BY <1>5 DEF Reap, RemoveDir, Go, files
<1>6. ASSUME NEW b \in Boots, Mkdir(b) PROVE NameTypeOK'
  BY <1>6 DEF Mkdir, Go, files
<1>7. ASSUME NEW b \in Boots, MkdirTaken(b) PROVE NameTypeOK'
  BY <1>7 DEF MkdirTaken, Go, files
<1>8. ASSUME NEW b \in Boots, Mark(b) PROVE NameTypeOK'
  BY <1>8 DEF Mark, Go, files
<1>9. ASSUME NEW b \in Boots, MarkFails(b) PROVE NameTypeOK'
  BY <1>9 DEF MarkFails, Go, files
<1>10. ASSUME NEW b \in Boots, ReadRecord(b) PROVE NameTypeOK'
  BY <1>10 DEF ReadRecord, Go, files
<1>11. ASSUME NEW b \in Boots, ReadMarker(b) PROVE NameTypeOK'
  BY <1>11 DEF ReadMarker, Fresh, Go, files
<1>12. ASSUME NEW b \in Boots, Wake(b) PROVE NameTypeOK'
  BY <1>12 DEF Wake, Go, files
<1>13. ASSUME NEW b \in Boots, Remove(b) PROVE NameTypeOK'
  BY <1>13 DEF Remove, RemoveDir, Go, files
<1>14. ASSUME NEW b \in Boots, BoxUp(b) PROVE NameTypeOK'
  BY <1>14 DEF BoxUp, Go, files
<1>15. ASSUME NEW b \in Boots, WriteRecord(b) PROVE NameTypeOK'
  BY <1>15 DEF WriteRecord, Go, files
<1>16. ASSUME NEW b \in Boots, Dies(b) PROVE NameTypeOK'
  BY <1>16 DEF Dies, Over, Go, files
<1>17. ASSUME NEW b \in Boots, BoxStops(b) PROVE NameTypeOK'
  BY <1>17 DEF BoxStops, Go, files
<1>18. CASE MarkerAges
  BY <1>18 DEF MarkerAges, Fresh, Go, files
<1>20. ASSUME NEW b \in Boots, JudgeKept(b) PROVE NameTypeOK'
  BY <1>20 DEF JudgeKept, Go, files
<1>21. ASSUME NEW b \in Boots, Keeps(b) PROVE NameTypeOK'
  BY <1>21 DEF Keeps, Go, files
<1>22. CASE Clears
  BY <1>22 DEF Clears, Go, files
<1>23. CASE Namesake
  BY <1>23 DEF Namesake, Go, files
<1>19. CASE UNCHANGED vars
  BY <1>19 DEF vars, files
<1> QED
  BY <1>1, <1>2, <1>3, <1>4, <1>5, <1>6, <1>7, <1>8, <1>9, <1>10, <1>11, <1>12,
     <1>13, <1>14, <1>15, <1>16, <1>17, <1>18, <1>19,
     <1>20, <1>21, <1>22, <1>23 DEF Next, BootStep, AllOver

(* A boot that is through does nothing more.                                *)
LEMMA BootInvStep ==
  ASSUME NameTypeOK, BootInv, [Next]_vars
  PROVE  BootInv'
<1> USE NameAssumption DEF NameTypeOK, BootInv, NameAssumption, Taking
<1>1. ASSUME NEW b \in Boots, List(b) PROVE BootInv'
  BY <1>1 DEF List, Go, files
<1>2. ASSUME NEW b \in Boots, JudgeActive(b) PROVE BootInv'
  BY <1>2 DEF JudgeActive, Go, files
<1>3. ASSUME NEW b \in Boots, JudgeUnknown(b) PROVE BootInv'
  BY <1>3 DEF JudgeUnknown, Go, files
<1>4. ASSUME NEW b \in Boots, JudgeInactive(b) PROVE BootInv'
  BY <1>4 DEF JudgeInactive, Go, files
<1>5. ASSUME NEW b \in Boots, Reap(b) PROVE BootInv'
  BY <1>5 DEF Reap, RemoveDir, Go, files
<1>6. ASSUME NEW b \in Boots, Mkdir(b) PROVE BootInv'
  BY <1>6 DEF Mkdir, Go, files
<1>7. ASSUME NEW b \in Boots, MkdirTaken(b) PROVE BootInv'
  BY <1>7 DEF MkdirTaken, Go, files
<1>8. ASSUME NEW b \in Boots, Mark(b) PROVE BootInv'
  BY <1>8 DEF Mark, Go, files
<1>9. ASSUME NEW b \in Boots, MarkFails(b) PROVE BootInv'
  BY <1>9 DEF MarkFails, Go, files
<1>10. ASSUME NEW b \in Boots, ReadRecord(b) PROVE BootInv'
  BY <1>10 DEF ReadRecord, Go, files
<1>11. ASSUME NEW b \in Boots, ReadMarker(b) PROVE BootInv'
  BY <1>11 DEF ReadMarker, Fresh, Go, files
<1>12. ASSUME NEW b \in Boots, Wake(b) PROVE BootInv'
  BY <1>12 DEF Wake, Go, files
<1>13. ASSUME NEW b \in Boots, Remove(b) PROVE BootInv'
  BY <1>13 DEF Remove, RemoveDir, Go, files
<1>14. ASSUME NEW b \in Boots, BoxUp(b) PROVE BootInv'
  BY <1>14 DEF BoxUp, Go, files
<1>15. ASSUME NEW b \in Boots, WriteRecord(b) PROVE BootInv'
  BY <1>15 DEF WriteRecord, Go, files
<1>16. ASSUME NEW b \in Boots, Dies(b) PROVE BootInv'
  BY <1>16 DEF Dies, Over, Go, files
<1>17. ASSUME NEW b \in Boots, BoxStops(b) PROVE BootInv'
  BY <1>17 DEF BoxStops, Go, files
<1>18. CASE MarkerAges
  BY <1>18 DEF MarkerAges, Fresh, Go, files
<1>20. ASSUME NEW b \in Boots, JudgeKept(b) PROVE BootInv'
  BY <1>20 DEF JudgeKept, Go, files
<1>21. ASSUME NEW b \in Boots, Keeps(b) PROVE BootInv'
  BY <1>21 DEF Keeps, Go, files
<1>22. CASE Clears
  BY <1>22 DEF Clears, Go, files
<1>23. CASE Namesake
  BY <1>23 DEF Namesake, Go, files
<1>19. CASE UNCHANGED vars
  BY <1>19 DEF vars, files
<1> QED
  BY <1>1, <1>2, <1>3, <1>4, <1>5, <1>6, <1>7, <1>8, <1>9, <1>10, <1>11, <1>12,
     <1>13, <1>14, <1>15, <1>16, <1>17, <1>18, <1>19,
     <1>20, <1>21, <1>22, <1>23 DEF Next, BootStep, AllOver

(* The directory has one claimant, and who clears it first sees it has none.*)
LEMMA SoleInvStep ==
  ASSUME NameTypeOK, BootInv, SoleInv, [Next]_vars
  PROVE  SoleInv'
<1> USE NameAssumption DEF NameTypeOK, NameAssumption, Taking
<1>1. ASSUME NEW b \in Boots, List(b) PROVE SoleInv'
  <2> SUFFICES ASSUME NEW z \in Boots, Sole(z)'
               PROVE  /\ \A c, d \in Boots : Claimant(c)' /\ Claimant(d)' => c = d
                      /\ \A c \in Boots : Claimant(c)' => Stands(c)'
                      /\ FoundOut(z)'
    BY DEF SoleInv
  <2>1. /\ Sole(z) /\ running' = running
        /\ UNCHANGED <<dir, marker, stale, record>>
        /\ \A c \in Boots : c # b => at'[c] = at[c]
        /\ at[b] = "new" /\ at'[b] \in {"held", "mkdir", "judge"}
    BY <1>1 DEF List, Go, files, Sole
  <2>2. \A c \in Boots : (Claimant(c)' <=> Claimant(c)) /\ (Claimant(c) => Stands(c)' = Stands(c))
    BY <2>1 DEF Claimant, Holds, Stands
  <2>3. FoundOut(z) /\ \A c \in Boots : Claimant(c) => Stands(c)
    BY <2>1 DEF SoleInv
  <2>4. ASSUME z # b PROVE FoundOut(z)'
    <3>1. at'[z] = at[z] /\ saw'[z] = saw[z]
      BY <1>1, <2>1, <2>4 DEF List
    <3>2. (\A c \in Boots : at[c] # "mark") => (\A c \in Boots : at'[c] # "mark")
      BY <2>1
    <3> QED
      BY <2>1, <2>2, <2>3, <3>1, <3>2 DEF FoundOut
  <2>5. ASSUME z = b PROVE FoundOut(z)'
    <3>1. saw'[b] = record
      BY <1>1 DEF List
    <3> QED
      BY <2>1, <2>5, <3>1 DEF FoundOut
  <2>6. \A c, d \in Boots : Claimant(c) /\ Claimant(d) => c = d
    BY <2>1 DEF SoleInv
  <2> QED
    BY <2>2, <2>3, <2>4, <2>5, <2>6
<1>2. ASSUME NEW b \in Boots, JudgeActive(b) PROVE SoleInv'
  BY <1>2, ZenonT(40) DEF JudgeActive, Go, files, BootInv, SoleInv, Sole, Claimant, Holds,
     Stands, FoundOut
<1>3. ASSUME NEW b \in Boots, JudgeUnknown(b) PROVE SoleInv'
  BY <1>3, ZenonT(40) DEF JudgeUnknown, Go, files, BootInv, SoleInv, Sole, Claimant, Holds,
     Stands, FoundOut
<1>4. ASSUME NEW b \in Boots, JudgeInactive(b) PROVE SoleInv'
  BY <1>4, ZenonT(40) DEF JudgeInactive, Go, files, BootInv, SoleInv, Sole, Claimant, Holds,
     Stands, FoundOut
<1>5. ASSUME NEW b \in Boots, Reap(b) PROVE SoleInv'
  <2> SUFFICES ASSUME NEW z \in Boots, Sole(z)'
               PROVE  /\ \A c, d \in Boots : Claimant(c)' /\ Claimant(d)' => c = d
                      /\ \A c \in Boots : Claimant(c)' => Stands(c)'
                      /\ FoundOut(z)'
    BY DEF SoleInv
  <2>1. z = b /\ Sole(z)
    BY <1>5 DEF Reap, RemoveDir, Go, files, BootInv, SoleInv, Sole, Claimant, Holds, Stands, FoundOut, Sole
  <2>2. ASSUME NEW c \in Boots PROVE ~Claimant(c)
    <3>1. record = saw[b] /\ saw[b] \notin running /\ saw[b] # NoBoot
      BY <1>5, <2>1 DEF SoleInv, FoundOut, BootInv, Reap
    <3> QED
      BY <2>1, <3>1 DEF SoleInv, Claimant, Holds, Stands
  <2>3. \A c \in Boots : ~Claimant(c)'
    BY <1>5, <2>2 DEF Reap, RemoveDir, Go, files, BootInv, SoleInv, Sole, Claimant, Holds, Stands, FoundOut, Claimant, Holds
  <2>4. at'[b] \in {"mkdir", "refused"}
    BY <1>5 DEF Reap, RemoveDir, Go, files, BootInv, SoleInv, Sole, Claimant, Holds, Stands, FoundOut
  <2> QED
    BY <2>1, <2>3, <2>4 DEF FoundOut
<1>6. ASSUME NEW b \in Boots, Mkdir(b) PROVE SoleInv'
  BY <1>6 DEF Mkdir, Go, files, BootInv, SoleInv, Sole, Claimant, Holds, Stands,
     FoundOut
<1>7. ASSUME NEW b \in Boots, MkdirTaken(b) PROVE SoleInv'
  BY <1>7, ZenonT(40) DEF MkdirTaken, Go, files, BootInv, SoleInv, Sole, Claimant, Holds,
     Stands, FoundOut
<1>8. ASSUME NEW b \in Boots, Mark(b) PROVE SoleInv'
  BY <1>8, ZenonT(40) DEF Mark, Go, files, BootInv, SoleInv, Sole, Claimant, Holds, Stands,
     FoundOut
<1>9. ASSUME NEW b \in Boots, MarkFails(b) PROVE SoleInv'
  BY <1>9 DEF MarkFails, Go, files, BootInv, SoleInv, Sole, Claimant, Holds,
     Stands, FoundOut
<1>10. ASSUME NEW b \in Boots, ReadRecord(b) PROVE SoleInv'
  <2> SUFFICES ASSUME NEW z \in Boots, Sole(z)'
               PROVE  /\ \A c, d \in Boots : Claimant(c)' /\ Claimant(d)' => c = d
                      /\ \A c \in Boots : Claimant(c)' => Stands(c)'
                      /\ FoundOut(z)'
    BY DEF SoleInv
  <2>1. /\ Sole(z) /\ running' = running /\ saw' = saw
        /\ UNCHANGED <<dir, marker, stale, record>>
        /\ \A c \in Boots : c # b => at'[c] = at[c]
        /\ at[b] \in Taking /\ at'[b] \in Taking \cup {"refused"}
    BY <1>10 DEF ReadRecord, Go, files, BootInv, SoleInv, Sole, Claimant, Holds, Stands, FoundOut, Sole
  <2>2. at'[b] \notin {"mark", "claimed", "booted", "up"} /\ at[b] \notin {"mark", "claimed", "booted", "up"}
    BY <1>10 DEF ReadRecord, Go, files, BootInv, SoleInv, Sole, Claimant, Holds, Stands, FoundOut
  <2>3. \A c \in Boots : (Claimant(c)' <=> Claimant(c)) /\ (Claimant(c) => Stands(c)' = Stands(c))
    BY <2>1, <2>2 DEF Claimant, Holds, Stands
  <2>4. FoundOut(z) /\ \A c \in Boots : Claimant(c) => Stands(c)
    BY <2>1 DEF SoleInv
  <2>5. ASSUME z # b PROVE FoundOut(z)'
    <3>1. at'[z] = at[z] /\ saw'[z] = saw[z]
      BY <2>1, <2>5
    <3>2. (\A c \in Boots : at[c] # "mark") => (\A c \in Boots : at'[c] # "mark")
      BY <2>1, <2>2
    <3>3. (\A c \in Boots : ~Claimant(c)) => (\A c \in Boots : ~Claimant(c)')
      BY <2>3
    <3>4. (\A c \in Boots : Claimant(c) => marker = c /\ ~stale) =>
              (\A c \in Boots : Claimant(c)' => marker' = c /\ ~stale')
      BY <2>1, <2>3
    <3> QED
      BY <2>1, <2>4, <3>1, <3>2, <3>3, <3>4 DEF FoundOut
  <2>6. ASSUME z = b PROVE FoundOut(z)'
    <3>1. CASE at[b] = "record"
      <4>1. at'[b] \in {"age", "refused"}
        BY <1>10, <3>1 DEF ReadRecord, Go
      <4> QED
        BY <2>1, <2>4, <2>6, <3>1, <4>1 DEF FoundOut
    <3>2. CASE at[b] = "record again" /\ record = NoBoot
      <4>1. at'[b] = "age again"
        BY <1>10, <3>2 DEF ReadRecord, Go
      <4>2. \A c \in Boots : at[c] # "mark" /\ at'[c] # "mark"
        BY <2>1, <2>4, <2>6, <3>2, <4>1 DEF FoundOut
      <4>3. \A c \in Boots : Claimant(c) => marker = c /\ ~stale
        BY <2>4, <3>2, <4>2 DEF Stands, Claimant, Holds
      <4> QED
        BY <2>1, <2>3, <2>4, <2>6, <3>2, <4>1, <4>2, <4>3 DEF FoundOut
    <3>3. CASE at[b] = "record again" /\ record # NoBoot
      <4>1. at'[b] = "refused"
        BY <1>10, <3>3 DEF ReadRecord, Go
      <4> QED
        BY <2>6, <4>1 DEF FoundOut
    <3> QED
      BY <1>10, <3>1, <3>2, <3>3 DEF ReadRecord
  <2>7. FoundOut(z)'
    BY <2>5, <2>6
  <2> QED
    BY <2>1, <2>3, <2>7 DEF SoleInv
<1>11. ASSUME NEW b \in Boots, ReadMarker(b) PROVE SoleInv'
  <2> SUFFICES ASSUME NEW z \in Boots, Sole(z)'
               PROVE  /\ \A c, d \in Boots : Claimant(c)' /\ Claimant(d)' => c = d
                      /\ \A c \in Boots : Claimant(c)' => Stands(c)'
                      /\ FoundOut(z)'
    BY DEF SoleInv
  <2>1. /\ Sole(z) /\ running' = running /\ saw' = saw
        /\ UNCHANGED <<dir, marker, stale, record>>
        /\ \A c \in Boots : c # b => at'[c] = at[c]
        /\ at[b] \in Taking /\ at'[b] \in Taking \cup {"refused"}
    BY <1>11 DEF ReadMarker, Fresh, Go, files, BootInv, SoleInv, Sole, Claimant, Holds, Stands, FoundOut, Sole
  <2>2. at'[b] \notin {"mark", "claimed", "booted", "up"} /\ at[b] \notin {"mark", "claimed", "booted", "up"}
    BY <1>11 DEF ReadMarker, Fresh, Go, files, BootInv, SoleInv, Sole, Claimant, Holds, Stands, FoundOut
  <2>3. \A c \in Boots : (Claimant(c)' <=> Claimant(c)) /\ (Claimant(c) => Stands(c)' = Stands(c))
    BY <2>1, <2>2 DEF Claimant, Holds, Stands
  <2>4. FoundOut(z) /\ \A c \in Boots : Claimant(c) => Stands(c)
    BY <2>1 DEF SoleInv
  <2>5. ASSUME z # b PROVE FoundOut(z)'
    <3>1. at'[z] = at[z] /\ saw'[z] = saw[z]
      BY <2>1, <2>5
    <3>2. (\A c \in Boots : at[c] # "mark") => (\A c \in Boots : at'[c] # "mark")
      BY <2>1, <2>2
    <3>3. (\A c \in Boots : ~Claimant(c)) => (\A c \in Boots : ~Claimant(c)')
      BY <2>3
    <3>4. (\A c \in Boots : Claimant(c) => marker = c /\ ~stale) =>
              (\A c \in Boots : Claimant(c)' => marker' = c /\ ~stale')
      BY <2>1, <2>3
    <3> QED
      BY <2>1, <2>4, <3>1, <3>2, <3>3, <3>4 DEF FoundOut
  <2>6. ASSUME z = b PROVE FoundOut(z)'
    <3>1. CASE at[b] = "age"
      <4>1. at'[b] \in {"sleep", "refused"}
        BY <1>11, <3>1 DEF ReadMarker, Go
      <4> QED
        BY <2>1, <2>4, <2>6, <3>1, <4>1 DEF FoundOut
    <3>2. CASE at[b] = "age again" /\ ~Fresh
      <4>1. at'[b] = "remove"
        BY <1>11, <3>2 DEF ReadMarker, Go
      <4>2. \A c \in Boots : at[c] # "mark" /\ at'[c] # "mark" /\ ~Claimant(c)
        BY <2>1, <2>4, <2>6, <3>2, <4>1 DEF FoundOut, Fresh
      <4> QED
        BY <2>1, <2>3, <2>4, <2>6, <3>2, <4>1, <4>2 DEF FoundOut
    <3>3. CASE at[b] = "age again" /\ Fresh
      <4>1. at'[b] = "refused"
        BY <1>11, <3>3 DEF ReadMarker, Go
      <4> QED
        BY <2>6, <4>1 DEF FoundOut
    <3> QED
      BY <1>11, <3>1, <3>2, <3>3 DEF ReadMarker
  <2>7. FoundOut(z)'
    BY <2>5, <2>6
  <2> QED
    BY <2>1, <2>3, <2>7 DEF SoleInv
<1>12. ASSUME NEW b \in Boots, Wake(b) PROVE SoleInv'
  <2> SUFFICES ASSUME NEW z \in Boots, Sole(z)'
               PROVE  /\ \A c, d \in Boots : Claimant(c)' /\ Claimant(d)' => c = d
                      /\ \A c \in Boots : Claimant(c)' => Stands(c)'
                      /\ FoundOut(z)'
    BY DEF SoleInv
  <2>1. /\ Sole(z) /\ running' = running /\ saw' = saw
        /\ UNCHANGED <<dir, marker, stale, record>>
        /\ \A c \in Boots : c # b => at'[c] = at[c]
        /\ at[b] = "sleep" /\ at'[b] \in {"record again"}
    BY <1>12 DEF Wake, Go, files, Sole
  <2>2. \A c \in Boots : (Claimant(c)' <=> Claimant(c)) /\ (Claimant(c) => Stands(c)' = Stands(c))
    BY <2>1 DEF Claimant, Holds, Stands
  <2>3. FoundOut(z) /\ \A c \in Boots : Claimant(c) => Stands(c)
    BY <2>1 DEF SoleInv
  <2>4. ASSUME z # b PROVE FoundOut(z)'
    <3>1. at'[z] = at[z] /\ saw'[z] = saw[z]
      BY <1>12, <2>1, <2>4 DEF Wake
    <3>2. (\A c \in Boots : at[c] # "mark") => (\A c \in Boots : at'[c] # "mark")
      BY <2>1
    <3> QED
      BY <2>1, <2>2, <2>3, <3>1, <3>2 DEF FoundOut
  <2>5. ASSUME z = b PROVE FoundOut(z)'
    <3>1. dir /\ \A c \in Boots : at'[c] # "mark"
      BY <1>12, <2>1, <2>3, <2>5 DEF FoundOut, Wake
    <3> QED
      BY <2>1, <2>5, <3>1 DEF FoundOut
  <2>6. \A c, d \in Boots : Claimant(c) /\ Claimant(d) => c = d
    BY <2>1 DEF SoleInv
  <2> QED
    BY <2>2, <2>3, <2>4, <2>5, <2>6
<1>13. ASSUME NEW b \in Boots, Remove(b) PROVE SoleInv'
  <2> SUFFICES ASSUME NEW z \in Boots, Sole(z)'
               PROVE  /\ \A c, d \in Boots : Claimant(c)' /\ Claimant(d)' => c = d
                      /\ \A c \in Boots : Claimant(c)' => Stands(c)'
                      /\ FoundOut(z)'
    BY DEF SoleInv
  <2>1. z = b /\ Sole(z)
    BY <1>13 DEF Remove, RemoveDir, Go, files, BootInv, SoleInv, Sole, Claimant, Holds, Stands, FoundOut, Sole
  <2>2. ASSUME NEW c \in Boots PROVE ~Claimant(c)
    BY <1>13, <2>1 DEF SoleInv, FoundOut, Remove
  <2>3. \A c \in Boots : ~Claimant(c)'
    BY <1>13, <2>2 DEF Remove, RemoveDir, Go, files, BootInv, SoleInv, Sole, Claimant, Holds, Stands, FoundOut, Claimant, Holds
  <2>4. at'[b] \in {"mkdir", "refused"}
    BY <1>13 DEF Remove, RemoveDir, Go, files, BootInv, SoleInv, Sole, Claimant, Holds, Stands, FoundOut
  <2> QED
    BY <2>1, <2>3, <2>4 DEF FoundOut
<1>14. ASSUME NEW b \in Boots, BoxUp(b) PROVE SoleInv'
  BY <1>14, ZenonT(40) DEF BoxUp, Go, files, BootInv, SoleInv, Sole, Claimant, Holds, Stands,
     FoundOut
<1>15. ASSUME NEW b \in Boots, WriteRecord(b) PROVE SoleInv'
  BY <1>15, ZenonT(40) DEF WriteRecord, Go, files, BootInv, SoleInv, Sole, Claimant, Holds,
     Stands, FoundOut
<1>16. ASSUME NEW b \in Boots, Dies(b) PROVE SoleInv'
  <2> SUFFICES ASSUME NEW z \in Boots, Sole(z)'
               PROVE  /\ \A c, d \in Boots : Claimant(c)' /\ Claimant(d)' => c = d
                      /\ \A c \in Boots : Claimant(c)' => Stands(c)'
                      /\ FoundOut(z)'
    BY DEF SoleInv
  <2>1. /\ Sole(z) /\ saw' = saw /\ running' \subseteq running
        /\ UNCHANGED <<dir, marker, stale, record>>
        /\ at' = [at EXCEPT ![b] = "dead"]
    BY <1>16 DEF Dies, Over, Go, files, BootInv, SoleInv, Sole, Claimant, Holds, Stands, FoundOut, Sole
  <2>2. \A c \in Boots : Claimant(c)' => Claimant(c) /\ Stands(c)' = Stands(c)
    BY <2>1 DEF Claimant, Holds, Stands
  <2>3. FoundOut(z) /\ \A c \in Boots : Claimant(c) => Stands(c)
    BY <2>1 DEF SoleInv
  <2>4. FoundOut(z)'
    BY <2>1, <2>2, <2>3 DEF FoundOut
  <2> QED
    BY <2>1, <2>2, <2>3, <2>4 DEF SoleInv
<1>17. ASSUME NEW b \in Boots, BoxStops(b) PROVE SoleInv'
  BY <1>17 DEF BoxStops, Go, files, BootInv, SoleInv, Sole, Claimant, Holds,
     Stands, FoundOut
<1>18. CASE MarkerAges
  BY <1>18 DEF MarkerAges, Fresh, Go, files, BootInv, SoleInv, Sole, Claimant,
     Holds, Stands, FoundOut
<1>20. ASSUME NEW b \in Boots, JudgeKept(b) PROVE SoleInv'
  BY <1>20, ZenonT(40) DEF JudgeKept, Go, files, BootInv, SoleInv, Sole, Claimant,
     Holds, Stands, FoundOut
<1>21. ASSUME NEW b \in Boots, Keeps(b) PROVE SoleInv'
  BY <1>21 DEF Keeps, Go, files, BootInv, SoleInv, Sole, Claimant,
     Holds, Stands, FoundOut
<1>22. CASE Clears
  BY <1>22 DEF Clears, Go, files, BootInv, SoleInv, Sole, Claimant,
     Holds, Stands, FoundOut
<1>23. CASE Namesake
  BY <1>23 DEF Namesake, Go, files, BootInv, SoleInv, Sole, Claimant,
     Holds, Stands, FoundOut
<1>19. CASE UNCHANGED vars
  BY <1>19 DEF vars, files, BootInv, SoleInv, Sole, Claimant, Holds, Stands,
     FoundOut
<1> QED
  BY <1>1, <1>2, <1>3, <1>4, <1>5, <1>6, <1>7, <1>8, <1>9, <1>10, <1>11, <1>12,
     <1>13, <1>14, <1>15, <1>16, <1>17, <1>18, <1>19,
     <1>20, <1>21, <1>22, <1>23 DEF Next, BootStep, AllOver

--------------------------------------------------------------------------------
LEMMA InitIInv == Init => IInv
BY NameAssumption
   DEF Init, IInv, NameTypeOK, BootInv, SoleInv, NameAssumption, Stages, Claimant, Holds, FoundOut

LEMMA NextIInv == IInv /\ [Next]_vars => IInv'
BY NameTypeOKStep, BootInvStep, SoleInvStep DEF IInv

(* The inductive invariant of a name, for any number of boots.               *)
THEOREM Invariance == Spec => []IInv
BY InitIInv, NextIInv, PTL DEF Spec

--------------------------------------------------------------------------------
(* What the invariant gives.                                                *)

(* If at most one boot has cleared the name there is one that alone may have.  *)
LEMMA SomeSole ==
  ASSUME OneClears, NEW b \in Boots
  PROVE  \E z \in Boots : Sole(z)
<1>1. CASE \E z \in Boots : cleared[z] # {}
  BY <1>1 DEF OneClears, Sole
<1>2. CASE \A z \in Boots : cleared[z] = {}
  BY <1>2 DEF Sole
<1> QED
  BY <1>1, <1>2

(* Of the boots that race for a name one gets it, however many die on the   *)
(* way and leave a directory behind, as long as one boot does the clearing  *)
(* (reserveNodeDir's exclusive create).                                     *)
THEOREM OneClaim == Spec => []CreateDecides
<1>1. ASSUME IInv PROVE CreateDecides
  <2> SUFFICES ASSUME OneClears, NEW b \in Boots, NEW c \in Boots, Holds(b), Holds(c)
               PROVE  b = c
    BY DEF CreateDecides, OneWinner
  <2> QED
    BY <1>1, SomeSole DEF IInv, SoleInv, Claimant
<1> QED
  BY Invariance, <1>1, PTL

(* And the record under the name is that of the box that runs under it,     *)
(* which `dabs rm <name>` takes down (writeNode, reapInactiveHolder).       *)
THEOREM RecordsTheirs == Spec => []RecordIsTheBox
<1>1. ASSUME IInv PROVE RecordIsTheBox
  <2> SUFFICES ASSUME OneClears, NEW b \in Boots, at[b] = "up", b \in running
               PROVE  record = b
    BY DEF RecordIsTheBox
  <2> QED
    BY <1>1, SomeSole DEF IInv, SoleInv, Claimant, Holds, Stands
<1> QED
  BY Invariance, <1>1, PTL
================================================================================
