-------------------------- MODULE SourceWritesProofs ------------------------
(***************************************************************************)
(* What a successful apply_plan or generate_deck has written survives its  *)
(* competitors, for any number of commands, outputs and faults.            *)
(*                                                                         *)
(* The invariant: a file that a command counts as written is whole and its *)
(* own, or a failed application that had named it as its audit has removed *)
(* it, because exclusive creation makes a command the owner of a file and  *)
(* a rollback removes, its audit apart, only what the command counts as    *)
(* written.                                                                *)
(***************************************************************************)
EXTENDS SourceWrites, TLAPS

(* The written files of w are its own, whole and distinct, and the manifest  *)
(* that a generation counts with them is its own, but for unlinked audits.   *)
Kept(w) ==
    /\ \A i \in Parts(w) : i <= local[w].written =>
           Outputs[w][i] \in Unlinked \/ disk[Outputs[w][i]] = Whole(w)
    /\ \A i, j \in Parts(w) : i < j /\ j <= local[w].written =>
           Outputs[w][j] \in Unlinked \/ Outputs[w][i] # Outputs[w][j]
    /\ local[w].written > Len(Outputs[w]) =>
           Sidecar[w] \in Unlinked \/ disk[Sidecar[w]].by = w

Opened(w) ==
    /\ pc[w] \in {"opening", "writing"} => local[w].written < Len(Outputs[w])
    /\ pc[w] = "writing" => Current(w) \in Unlinked \/ disk[Current(w)] = Created(w)

Past(w) ==
    /\ pc[w] \in {"verifying", "recording", "closing", "done"} => local[w].written >= Len(Outputs[w])
    /\ disk[Sidecar[w]].by = w /\ disk[Sidecar[w]].whole => pc[w] = "done"

(* Before the try block nothing is written. *)
Early(w) ==
    /\ local[w].base = "planned"
    /\ pc[w] \in {"reviewing", "loading", "checking", "reading", "mapping", "refused"} =>
           local[w].written = 0
    /\ pc[w] \in {"opening", "writing", "verifying", "recording"} =>
           local[w].written <= Len(Outputs[w])

WInv(w) == Kept(w) /\ Opened(w) /\ Past(w) /\ Early(w)

IInv == TypeOK /\ \A w \in Writers : WInv(w)

-----------------------------------------------------------------------------
(* Typing *)

LEMMA CreatedTyped ==
    ASSUME TypeOK, NEW w \in Writers
    PROVE  /\ Created(w) \in FileRecords
           /\ Finished(w) \in FileRecords
           /\ Absent \in FileRecords
           /\ \A n \in Nat : Target(w, n) \in Files
<1>1. local[w].base \in Revisions
  BY DEF TypeOK, LocalRecords
<1>2. Created(w) \in FileRecords
  BY <1>1 DEF FileRecords, Created
<1>3. Finished(w) \in FileRecords
  BY <1>1 DEF FileRecords, Finished
<1>5. Absent \in FileRecords
  BY DEF FileRecords, Absent, Revisions
<1>6. \A n \in Parts(w) : Outputs[w][n] \in Files
  BY WritersAssumption DEF Parts
<1>7. Sidecar[w] \in Files
  BY WritersAssumption
<1>8. \A n \in Nat : Target(w, n) \in Files
  BY <1>6, <1>7 DEF Target
<1> QED BY <1>2, <1>3, <1>5, <1>8

LEMMA LocalTyped ==
    ASSUME TypeOK, NEW w \in Writers
    PROVE  /\ local[w].written \in Nat
           /\ \A r \in Plans : [local EXCEPT ![w].reviewed = r] \in [Writers -> LocalRecords]
           /\ \A r \in Plans : [local EXCEPT ![w].loaded = r] \in [Writers -> LocalRecords]
           /\ \A b \in Revisions : [local EXCEPT ![w].base = b] \in [Writers -> LocalRecords]
           /\ \A n \in Nat : [local EXCEPT ![w].written = n] \in [Writers -> LocalRecords]
           /\ \A b \in BOOLEAN : /\ [local EXCEPT ![w].torn = b] \in [Writers -> LocalRecords]
                                 /\ [local EXCEPT ![w].unlinked = b] \in [Writers -> LocalRecords]
<1>1. local \in [Writers -> LocalRecords] /\ local[w] \in LocalRecords
  BY DEF TypeOK
<1>2. local[w].written \in Nat
  BY <1>1 DEF LocalRecords
<1>3. /\ \A r \in Plans : [local[w] EXCEPT !.reviewed = r] \in LocalRecords
      /\ \A r \in Plans : [local[w] EXCEPT !.loaded = r] \in LocalRecords
      /\ \A b \in Revisions : [local[w] EXCEPT !.base = b] \in LocalRecords
  BY <1>1 DEF LocalRecords
<1>4. /\ \A n \in Nat : [local[w] EXCEPT !.written = n] \in LocalRecords
      /\ \A b \in BOOLEAN : [local[w] EXCEPT !.torn = b] \in LocalRecords
      /\ \A b \in BOOLEAN : [local[w] EXCEPT !.unlinked = b] \in LocalRecords
  BY <1>1 DEF LocalRecords
<1> QED BY <1>1, <1>2, <1>3, <1>4

LEMMA WrittenSet ==
    ASSUME TypeOK, NEW v \in Writers, NEW n \in Nat,
           local' = [local EXCEPT ![v].written = n]
    PROVE  /\ local' \in [Writers -> LocalRecords]
           /\ local'[v].written = n
           /\ local'[v].base = local[v].base
           /\ local'[v].torn = local[v].torn /\ local'[v].unlinked = local[v].unlinked
           /\ \A w \in Writers \ {v} : local'[w] = local[w]
<1>1. local \in [Writers -> LocalRecords]
  BY DEF TypeOK
<1>2. local' \in [Writers -> LocalRecords]
  BY LocalTyped
<1>3. local'[v] = [local[v] EXCEPT !.written = n]
  BY <1>1
<1>4. local'[v].written = n
  BY <1>1, <1>3 DEF LocalRecords
<1>5. /\ local'[v].base = local[v].base
      /\ local'[v].torn = local[v].torn /\ local'[v].unlinked = local[v].unlinked
  BY <1>1, <1>3 DEF LocalRecords
<1>6. \A w \in Writers \ {v} : local'[w] = local[w]
  BY <1>1
<1> QED BY <1>2, <1>4, <1>5, <1>6

(* A step that starts or ends an output or a sidecar, or none *)
LEMMA GotoFrame ==
    ASSUME TypeOK, NEW w \in Writers, NEW from, NEW to, Goto(w, from, to)
    PROVE  /\ pc[w] = from /\ pc'[w] = to
           /\ \A v \in Writers \ {w} : pc'[v] = pc[v]
BY DEF TypeOK, Goto

LEMMA GotoTyped ==
    ASSUME TypeOK, NEW w \in Writers, NEW from, NEW to \in PcValues, Goto(w, from, to)
    PROVE  pc' \in [Writers -> PcValues]
BY DEF TypeOK, Goto

-----------------------------------------------------------------------------
(* What one command may do to the files of another *)

(* A step of v takes files that nobody has and changes its own; what it does *)
(* to others it does to an unlinked audit.                                   *)
Touches(v) ==
    /\ \A f \in Files :
          \/ disk'[f] = disk[f]
          \/ /\ disk'[f].by \in {v, Nobody}
             /\ disk[f].by \in {v, Nobody} \/ f \in Unlinked'
    /\ Unlinked \subseteq Unlinked'
    /\ \A w \in Writers \ {v} : pc'[w] = pc[w] /\ local'[w] = local[w]

(* An audit that was removed stays removed in the eyes of the properties.    *)
LEMMA StaysUnlinked ==
    ASSUME NEW v \in Writers, \A w \in Writers \ {v} : local'[w] = local[w],
           local[v].unlinked => local'[v].unlinked
    PROVE  Unlinked \subseteq Unlinked'
BY DEF Unlinked, Writers

LEMMA OthersKeep ==
    ASSUME IInv, NEW v \in Writers, Touches(v), NEW w \in Writers, w # v
    PROVE  WInv(w)'
<1> USE DEF IInv
<1>1. pc'[w] = pc[w] /\ local'[w] = local[w] /\ Unlinked \subseteq Unlinked'
  BY DEF Touches
<1>2. w # Nobody /\ WInv(w) /\ Sidecar[w] \in Files
  BY WritersAssumption
<1>3. ASSUME NEW f \in Files, disk[f].by = w
      PROVE  disk'[f] = disk[f] \/ f \in Unlinked'
  BY <1>2, <1>3 DEF Touches
<1>4. \A i \in Parts(w) : Outputs[w][i] \in Files
  BY WritersAssumption DEF Parts
<1>5. Kept(w)'
  <2>1. ASSUME NEW i \in Parts(w), i <= local[w].written
        PROVE  Outputs[w][i] \in Unlinked' \/ disk'[Outputs[w][i]] = Whole(w)
    <3>1. Outputs[w][i] \in Unlinked \/ disk[Outputs[w][i]] = Whole(w)
      BY <1>2, <2>1 DEF WInv, Kept
    <3> QED BY <3>1, <1>1, <1>3, <1>4 DEF Whole
  <2>2. local[w].written > Len(Outputs[w]) =>
            Sidecar[w] \in Unlinked' \/ disk'[Sidecar[w]].by = w
    BY <1>1, <1>2, <1>3 DEF WInv, Kept
  <2> QED BY <1>1, <1>2, <2>1, <2>2 DEF WInv, Kept, Whole, Parts
<1>6. Opened(w)'
  <2>1. CASE pc[w] = "writing"
    <3>1. /\ local[w].written < Len(Outputs[w])
          /\ Current(w) \in Unlinked \/ disk[Current(w)] = Created(w)
      BY <1>2, <2>1 DEF WInv, Opened
    <3>2. Current(w) \in Files
      <4>1. local[w].written \in Nat
        BY LocalTyped
      <4>2. Len(Outputs[w]) \in Nat
        BY WritersAssumption
      <4>3. local[w].written + 1 \in Parts(w)
        BY <3>1, <4>1, <4>2 DEF Parts
      <4> QED BY <4>3, <1>4 DEF Current, Target
    <3>3. Current(w) \in Unlinked' \/ disk'[Current(w)] = Created(w)
      BY <1>1, <3>1, <3>2, <1>3 DEF Created
    <3>4. Current(w)' = Current(w) /\ Created(w)' = Created(w)
      BY <1>1 DEF Current, Created, Target, Parts
    <3>5. Current(w)' \in Unlinked' \/ disk'[Current(w)'] = Created(w)'
      BY <3>3, <3>4
    <3> QED BY <1>1, <3>1, <3>5 DEF Opened
  <2>2. CASE pc[w] # "writing"
    BY <1>1, <1>2, <2>2 DEF WInv, Opened
  <2> QED BY <2>1, <2>2
<1>7. Past(w)'
  <2>2. disk'[Sidecar[w]].by = w => disk'[Sidecar[w]] = disk[Sidecar[w]]
    BY <1>2 DEF Touches
  <2> QED BY <1>1, <1>2, <2>2 DEF WInv, Past
<1>8. Early(w)'
  BY <1>1, <1>2 DEF WInv, Early
<1> QED BY <1>5, <1>6, <1>7, <1>8 DEF WInv

-----------------------------------------------------------------------------
(* Steps that leave the files alone *)

LEMMA QuietStep ==
    ASSUME IInv, NEW v \in Writers, NEW from \in PcValues, NEW to \in PcValues,
           Goto(v, from, to), disk' = disk, local' \in [Writers -> LocalRecords],
           \A w \in Writers \ {v} : local'[w] = local[w],
           local'[v].written = local[v].written, local'[v].base = "planned",
           local'[v].unlinked = local[v].unlinked,
           to # "writing",
           to = "opening" => local[v].written = 0,
           to \in {"verifying", "recording", "closing", "done"} =>
               local[v].written >= Len(Outputs[v]),
           to = "recording" => from = "verifying",
           to \in {"loading", "checking", "reading", "mapping", "refused"} =>
               local[v].written = 0,
           to # "reviewing", to # "verifying", from # "done",
           source' \in [{"root", "includes"} -> Revisions], plan' \in Plans
    PROVE  IInv'
<1> USE DEF IInv
<1>0. from = pc[v] /\ pc'[v] = to /\ \A w \in Writers \ {v} : pc'[w] = pc[w]
  BY GotoFrame
<1>1. TypeOK'
  <2>1. pc' \in [Writers -> PcValues]
    BY GotoTyped
  <2>2. \A w \in Writers : local'[w].written = local[w].written
    OBVIOUS
  <2> QED BY <2>1, <2>2 DEF TypeOK
<1>2. Touches(v)
  BY <1>0, StaysUnlinked DEF Touches
<1>3. WInv(v)'
  <2>1. WInv(v) /\ Len(Outputs[v]) \in Nat /\ Len(Outputs[v]) > 0
    BY WritersAssumption
  <2>2. Kept(v)'
    BY <1>2, <2>1 DEF Touches, WInv, Kept, Whole, Parts
  <2>3. Opened(v)'
    BY <1>0, <2>1 DEF WInv, Opened
  <2>4. Past(v)'
    BY <1>0, <2>1 DEF WInv, Past
  <2>5. Early(v)'
    BY <1>0, <2>1 DEF WInv, Early
  <2> QED BY <2>2, <2>3, <2>4, <2>5 DEF WInv
<1>4. \A w \in Writers : w # v => WInv(w)'
  BY <1>2, OthersKeep
<1> QED BY <1>1, <1>3, <1>4

LEMMA QuietSteps ==
    ASSUME IInv, NEW v \in Writers,
           \/ Review(v) \/ ReviewRefuses(v) \/ PlanRefused(v) \/ LoadPlan(v)
           \/ CheckDestination(v) \/ DestinationTaken(v)
           \/ ReadSource(v) \/ SourceStale(v) \/ CheckOutputs(v)
           \/ OutputExists(v) \/ Verify(v) \/ VerifyFails(v) \/ SidecarExists(v)
           \/ KeepManifest(v) \/ RemovedAll(v)
           \/ WriteFails(v) \/ RemovalFails(v) \/ Crash(v)
    PROVE  IInv'
<1>0. TypeOK /\ WInv(v)
  BY DEF IInv
<1>1. /\ TypeOK /\ WInv(v)
      /\ local \in [Writers -> LocalRecords] /\ plan \in Plans
      /\ source \in [{"root", "includes"} -> Revisions] /\ pc[v] \in PcValues
      /\ local[v].written \in Nat /\ Len(Outputs[v]) \in Nat
  <2>1. local[v].written \in Nat
    BY <1>0, LocalTyped
  <2>2. Len(Outputs[v]) \in Nat
    BY WritersAssumption
  <2>3. /\ local \in [Writers -> LocalRecords] /\ plan \in Plans
        /\ source \in [{"root", "includes"} -> Revisions] /\ pc[v] \in PcValues
    BY <1>0 DEF TypeOK
  <2> QED BY <1>0, <2>1, <2>2, <2>3
<1>2. local[v].base = "planned"
  BY <1>1 DEF WInv, Early
<1> USE <1>1, <1>2 DEF PcValues, EndPcs
<1>3. CASE Review(v)
  <2>1. local' \in [Writers -> LocalRecords]
    BY <1>3, LocalTyped DEF Review
  <2>2. /\ local'[v].written = local[v].written /\ local'[v].base = local[v].base
        /\ local'[v].unlinked = local[v].unlinked
    BY <1>3 DEF Review, LocalRecords
  <2> QED BY <1>3, <2>1, <2>2, QuietStep, GotoFrame DEF Review, WInv, Early
<1>4. CASE ReviewRefuses(v)
  BY <1>4, QuietStep, GotoFrame DEF ReviewRefuses, WInv, Early
<1>5. CASE LoadPlan(v)
  <2>1. local' \in [Writers -> LocalRecords]
    BY <1>5, LocalTyped DEF LoadPlan
  <2>2. /\ local'[v].written = local[v].written /\ local'[v].base = local[v].base
        /\ local'[v].unlinked = local[v].unlinked
    BY <1>5 DEF LoadPlan, LocalRecords
  <2> QED BY <1>5, <2>1, <2>2, QuietStep, GotoFrame DEF LoadPlan, WInv, Early
<1>6. CASE CheckDestination(v)
  <2>1. PICK to \in {"reading", "opening"} : Goto(v, "checking", to)
    BY <1>6 DEF CheckDestination
  <2>2. local[v].written = 0
    BY <2>1, GotoFrame DEF WInv, Early
  <2> QED BY <1>6, <2>1, <2>2, QuietStep DEF CheckDestination
<1>7. CASE DestinationTaken(v)
  BY <1>7, QuietStep, GotoFrame DEF DestinationTaken, WInv, Early
<1>8. CASE ReadSource(v)
  <2>1. local' = [local EXCEPT ![v].base = "planned"] /\ "planned" \in Revisions
    BY <1>8 DEF ReadSource, Fresh, Revisions
  <2>2. local' \in [Writers -> LocalRecords]
    BY <2>1, LocalTyped
  <2>3. /\ local'[v].written = local[v].written /\ local'[v].base = "planned"
        /\ local'[v].unlinked = local[v].unlinked
    BY <2>1 DEF LocalRecords
  <2> QED BY <1>8, <2>1, <2>2, <2>3, QuietStep, GotoFrame DEF ReadSource, WInv, Early
<1>9. CASE SourceStale(v)
  BY <1>9, QuietStep, GotoFrame DEF SourceStale, WInv, Early
<1>10. CASE CheckOutputs(v)
  <2>1. PICK to \in {"refused", "opening"} : Goto(v, "mapping", to)
    BY <1>10 DEF CheckOutputs
  <2>2. local[v].written = 0
    BY <2>1, GotoFrame DEF WInv, Early
  <2> QED BY <1>10, <2>1, <2>2, QuietStep DEF CheckOutputs
<1>11. CASE OutputExists(v)
  BY <1>11, QuietStep DEF OutputExists
<1>12. CASE Verify(v)
  BY <1>12, QuietStep, GotoFrame DEF Verify, WInv, Past
<1>13. CASE VerifyFails(v)
  BY <1>13, QuietStep DEF VerifyFails
<1>14. CASE SidecarExists(v)
  BY <1>14, QuietStep DEF SidecarExists
<1>15. CASE KeepManifest(v)
  BY <1>15, QuietStep DEF KeepManifest
<1>16. CASE RemovedAll(v)
  BY <1>16, QuietStep DEF RemovedAll
<1>17. CASE WriteFails(v)
  <2>1. PICK from \in {"opening", "writing", "verifying", "recording", "closing"} :
            Goto(v, from, "failing")
    BY <1>17 DEF WriteFails
  <2>2. PICK b \in BOOLEAN : local' = [local EXCEPT ![v].torn = b]
    BY <1>17 DEF WriteFails
  <2>3. local' \in [Writers -> LocalRecords] /\ \A w \in Writers \ {v} : local'[w] = local[w]
    BY <2>2, LocalTyped
  <2>4. /\ local'[v].written = local[v].written /\ local'[v].base = local[v].base
        /\ local'[v].unlinked = local[v].unlinked
    BY <2>2 DEF LocalRecords
  <2> QED BY <1>17, <2>1, <2>3, <2>4, QuietStep DEF WriteFails
<1>18. CASE RemovalFails(v)
  <2>1. PICK from \in {"failing", "removing"} : Goto(v, from, "stranded")
    BY <1>18 DEF RemovalFails
  <2> QED BY <1>18, <2>1, QuietStep DEF RemovalFails
<1>19. CASE Crash(v)
  BY <1>19, QuietStep DEF Crash
<1>20. CASE PlanRefused(v)
  <2>1. PICK from \in {"reviewing", "loading", "reading"} : Goto(v, from, "refused")
    BY <1>20 DEF PlanRefused
  <2>2. local[v].written = 0
    BY <2>1, GotoFrame DEF WInv, Early
  <2> QED BY <1>20, <2>1, <2>2, QuietStep DEF PlanRefused
<1> QED BY <1>3, <1>4, <1>5, <1>6, <1>7, <1>8, <1>9, <1>10, <1>11, <1>12, <1>13, <1>14,
           <1>15, <1>16, <1>17, <1>18, <1>19, <1>20

-----------------------------------------------------------------------------
(* Steps that change a file *)

LEMMA NoisyStep ==
    ASSUME IInv, NEW v \in Writers, TypeOK', Touches(v), WInv(v)'
    PROVE  IInv'
BY OthersKeep DEF IInv

(* What is known of a command before it changes a file *)
LEMMA Known ==
    ASSUME IInv, NEW v \in Writers
    PROVE  /\ TypeOK /\ WInv(v)
           /\ local[v].written \in Nat /\ Len(Outputs[v]) \in Nat /\ v # Nobody
           /\ local[v].base = "planned"
           /\ Created(v) = [by |-> v, whole |-> FALSE, base |-> "planned"]
           /\ Finished(v) = Whole(v)
           /\ Sidecar[v] \in Files
           /\ \A i \in Parts(v) : Outputs[v][i] \in Files \ {Sidecar[v]}
<1>1. TypeOK /\ WInv(v)
  BY DEF IInv
<1>2. local[v].written \in Nat
  BY <1>1, LocalTyped
<1>3. local[v].base = "planned"
  BY <1>1 DEF WInv, Early
<1>4. /\ Len(Outputs[v]) \in Nat /\ v # Nobody /\ Sidecar[v] \in Files
      /\ \A i \in Parts(v) : Outputs[v][i] \in Files \ {Sidecar[v]}
  BY WritersAssumption DEF Parts
<1>5. /\ Created(v) = [by |-> v, whole |-> FALSE, base |-> "planned"]
      /\ Finished(v) = Whole(v)
  BY <1>3 DEF Created, Finished, Whole
<1> QED BY <1>1, <1>2, <1>3, <1>4, <1>5

LEMMA OpenOutputKeeps ==
    ASSUME IInv, NEW v \in Writers, OpenOutput(v)
    PROVE  IInv'
<1>1. /\ TypeOK /\ WInv(v) /\ v # Nobody
      /\ local[v].written \in Nat /\ Len(Outputs[v]) \in Nat
      /\ \A i \in Parts(v) : Outputs[v][i] \in Files \ {Sidecar[v]}
  BY Known
<1>2. /\ pc[v] = "opening" /\ pc'[v] = "writing"
      /\ \A w \in Writers \ {v} : pc'[w] = pc[w]
      /\ pc' \in [Writers -> PcValues]
  BY <1>1, GotoFrame, GotoTyped DEF OpenOutput, PcValues
<1>3. /\ local[v].written < Len(Outputs[v])
      /\ local[v].written + 1 \in Parts(v)
      /\ Current(v) = Outputs[v][local[v].written + 1]
      /\ Current(v) \in Files \ {Sidecar[v]}
  BY <1>1, <1>2 DEF WInv, Opened, Parts, Current, Target
<1>4. /\ disk[Current(v)].by = Nobody
      /\ disk' = [disk EXCEPT ![Current(v)] = Created(v)]
      /\ source' = source /\ plan' = plan /\ local' = local
  BY DEF OpenOutput, Exists
<1>5. disk' \in [Files -> FileRecords] /\ disk \in [Files -> FileRecords]
  BY <1>1, <1>4, CreatedTyped DEF TypeOK
<1>6. /\ disk'[Current(v)] = Created(v)
      /\ \A f \in Files : f # Current(v) => disk'[f] = disk[f]
  BY <1>3, <1>4, <1>5
<1>7. TypeOK'
  BY <1>1, <1>2, <1>4, <1>5 DEF TypeOK
<1>80. Unlinked' = Unlinked
  BY <1>4 DEF Unlinked
<1>8. Touches(v)
  BY <1>2, <1>4, <1>6, <1>80 DEF Touches, Created
<1>9. Kept(v)'
  <2>1. ASSUME NEW i \in Parts(v), i <= local[v].written
        PROVE  Outputs[v][i] \in Unlinked \/ disk'[Outputs[v][i]] = Whole(v)
    <3>1. Outputs[v][i] \in Unlinked \/ disk[Outputs[v][i]] = Whole(v)
      BY <1>1, <2>1 DEF WInv, Kept
    <3> QED BY <3>1, <1>1, <1>4, <1>6 DEF Whole
  <2>2. ~(local[v].written > Len(Outputs[v]))
    BY <1>1, <1>3
  <2> QED BY <1>1, <1>4, <1>80, <2>1, <2>2 DEF WInv, Kept, Whole, Parts
<1>10. Opened(v)'
  <2>1. Current(v)' = Current(v) /\ Created(v)' = Created(v)
    BY <1>4 DEF Current, Created, Target, Parts
  <2>2. disk'[Current(v)'] = Created(v)'
    BY <1>6, <2>1
  <2> QED BY <1>3, <1>4, <2>2 DEF Opened
<1>11. Past(v)'
  <2>1. Sidecar[v] \in Files /\ Sidecar[v] # Current(v)
    BY <1>3, Known
  <2> QED BY <1>1, <1>2, <1>6, <2>1 DEF WInv, Past
<1>12. Early(v)'
  BY <1>1, <1>2, <1>3, <1>4 DEF WInv, Early
<1> QED BY <1>7, <1>8, <1>9, <1>10, <1>11, <1>12, NoisyStep DEF WInv

LEMMA WriteOutputKeeps ==
    ASSUME IInv, NEW v \in Writers, WriteOutput(v)
    PROVE  IInv'
<1>1. /\ TypeOK /\ WInv(v) /\ v # Nobody
      /\ local[v].written \in Nat /\ Len(Outputs[v]) \in Nat
      /\ Created(v) = [by |-> v, whole |-> FALSE, base |-> "planned"]
      /\ Finished(v) = Whole(v)
      /\ \A i \in Parts(v) : Outputs[v][i] \in Files \ {Sidecar[v]}
  BY Known
<1>2. PICK to \in {"opening", "verifying"} :
          /\ to = IF local[v].written + 1 < Len(Outputs[v]) THEN "opening" ELSE "verifying"
          /\ Goto(v, "writing", to)
  BY DEF WriteOutput
<1>3. /\ pc[v] = "writing" /\ pc'[v] = to
      /\ \A w \in Writers \ {v} : pc'[w] = pc[w]
      /\ pc' \in [Writers -> PcValues]
  BY <1>1, <1>2, GotoFrame, GotoTyped DEF PcValues
<1>4. /\ local[v].written < Len(Outputs[v])
      /\ local[v].written + 1 \in Parts(v)
      /\ Current(v) = Outputs[v][local[v].written + 1]
      /\ Current(v) \in Files \ {Sidecar[v]}
      /\ Current(v) \in Unlinked \/ disk[Current(v)] = Created(v)
  BY <1>1, <1>3 DEF WInv, Opened, Parts, Current, Target
<1>5. /\ disk' = IF disk[Current(v)].by = v
                   THEN [disk EXCEPT ![Current(v)] = Finished(v)] ELSE disk
      /\ local' = [local EXCEPT ![v].written = local[v].written + 1]
      /\ source' = source /\ plan' = plan
  BY DEF WriteOutput
<1>6. disk' \in [Files -> FileRecords] /\ disk \in [Files -> FileRecords]
  BY <1>1, <1>5, CreatedTyped DEF TypeOK
<1>7. /\ Current(v) \in Unlinked \/ disk'[Current(v)] = Whole(v)
      /\ \/ disk' = disk
         \/ disk[Current(v)].by = v /\ disk'[Current(v)] = Whole(v)
      /\ \A f \in Files : f # Current(v) => disk'[f] = disk[f]
  BY <1>1, <1>4, <1>5, <1>6 DEF Created
<1>8. /\ local' \in [Writers -> LocalRecords]
      /\ local'[v].written = local[v].written + 1 /\ local'[v].base = local[v].base
      /\ local'[v].unlinked = local[v].unlinked
      /\ \A w \in Writers \ {v} : local'[w] = local[w]
  <2>1. local[v].written + 1 \in Nat
    BY <1>1
  <2> QED BY <1>1, <1>5, <2>1, WrittenSet
<1>9. TypeOK'
  <2>0. local[v].written + 1 <= Len(Outputs[v])
    BY <1>1, <1>4
  <2>1. local'[v].written <= Len(Outputs[v])
    BY <1>8, <2>0
  <2>2. \A w \in Writers \ {v} :
            \/ local'[w].written <= Len(Outputs[w])
            \/ w \in Generators /\ local'[w].written = Len(Outputs[w]) + 1
    BY <1>1, <1>8 DEF TypeOK
  <2>3. source' \in [{"root", "includes"} -> Revisions] /\ plan' \in Plans
    BY <1>1, <1>5 DEF TypeOK
  <2> QED BY <1>3, <1>6, <1>8, <2>1, <2>2, <2>3 DEF TypeOK
<1>100. Unlinked \subseteq Unlinked'
  BY <1>8, StaysUnlinked
<1>10. Touches(v)
  BY <1>1, <1>3, <1>4, <1>7, <1>8, <1>100 DEF Touches, Whole
<1>11. Kept(v)'
  <2>0. Kept(v)
    BY <1>1 DEF WInv
  <2>1. \A i \in Parts(v) : i <= local[v].written /\ Outputs[v][i] = Current(v) =>
            Current(v) \in Unlinked
    BY <1>1, <1>4, <2>0 DEF Kept, Whole
  <2>2. ASSUME NEW i \in Parts(v), i <= local[v].written + 1
        PROVE  Outputs[v][i] \in Unlinked' \/ disk'[Outputs[v][i]] = Whole(v)
    <3>1. CASE i = local[v].written + 1
      BY <3>1, <1>4, <1>7, <1>100
    <3>2. CASE i <= local[v].written
      <4>1. Outputs[v][i] \in Unlinked \/ disk[Outputs[v][i]] = Whole(v)
        BY <3>2, <2>0 DEF Kept
      <4>2. Outputs[v][i] \in Unlinked \/ Outputs[v][i] # Current(v)
        BY <3>2, <2>1
      <4> QED BY <4>1, <4>2, <1>1, <1>7, <1>100
    <3>3. i \in Nat /\ local[v].written \in Nat
      BY <1>1 DEF Parts
    <3>4. i = local[v].written + 1 \/ i <= local[v].written
      BY <2>2, <3>3
    <3> QED BY <3>1, <3>2, <3>4
  <2>3. ASSUME NEW i \in Parts(v), NEW j \in Parts(v), i < j, j <= local[v].written + 1
        PROVE  Outputs[v][j] \in Unlinked' \/ Outputs[v][i] # Outputs[v][j]
    <3>1. CASE j = local[v].written + 1
      <4>1. i <= local[v].written
        BY <3>1, <2>3, <1>1 DEF Parts
      <4> QED BY <3>1, <4>1, <2>1, <1>4, <1>100
    <3>2. CASE j <= local[v].written
      BY <3>2, <2>3, <2>0, <1>100 DEF Kept
    <3>3. j \in Nat /\ local[v].written \in Nat
      BY <1>1 DEF Parts
    <3>4. j = local[v].written + 1 \/ j <= local[v].written
      BY <2>3, <3>3
    <3> QED BY <3>1, <3>2, <3>4
  <2>4. ~(local'[v].written > Len(Outputs[v]))
    BY <1>1, <1>4, <1>8
  <2> QED BY <1>8, <2>2, <2>3, <2>4 DEF Kept, Whole, Parts
<1>12. Opened(v)'
  BY <1>1, <1>2, <1>3, <1>8 DEF Opened
<1>13. Past(v)'
  <2>1. Sidecar[v] \in Files /\ Sidecar[v] # Current(v)
    BY <1>4, Known
  <2> QED BY <1>1, <1>2, <1>3, <1>7, <1>8, <2>1 DEF WInv, Past
<1>14. Early(v)'
  BY <1>1, <1>2, <1>3, <1>4, <1>8 DEF WInv, Early
<1> QED BY <1>9, <1>10, <1>11, <1>12, <1>13, <1>14, NoisyStep DEF WInv

LEMMA OpenSidecarKeeps ==
    ASSUME IInv, NEW v \in Writers, OpenSidecar(v)
    PROVE  IInv'
<1>1. /\ TypeOK /\ WInv(v) /\ v # Nobody
      /\ local[v].written \in Nat /\ Len(Outputs[v]) \in Nat
      /\ Created(v) = [by |-> v, whole |-> FALSE, base |-> "planned"]
      /\ Sidecar[v] \in Files
      /\ \A i \in Parts(v) : Outputs[v][i] \in Files \ {Sidecar[v]}
  BY Known
<1>2. /\ pc[v] = "recording" /\ pc'[v] = "closing"
      /\ \A w \in Writers \ {v} : pc'[w] = pc[w]
      /\ pc' \in [Writers -> PcValues]
  BY <1>1, GotoFrame, GotoTyped DEF OpenSidecar, PcValues
<1>3. local[v].written = Len(Outputs[v])
  BY <1>1, <1>2 DEF WInv, Past, Early
<1>4. /\ disk[Sidecar[v]].by = Nobody
      /\ disk' = [disk EXCEPT ![Sidecar[v]] = Created(v)]
      /\ source' = source /\ plan' = plan
  BY DEF OpenSidecar, Exists
<1>5. disk' \in [Files -> FileRecords] /\ disk \in [Files -> FileRecords]
  BY <1>1, <1>4, CreatedTyped DEF TypeOK
<1>6. /\ disk'[Sidecar[v]] = Created(v)
      /\ \A f \in Files : f # Sidecar[v] => disk'[f] = disk[f]
  BY <1>1, <1>4, <1>5
<1>7. PICK n \in {local[v].written, local[v].written + 1} :
          /\ v \notin Generators => n = local[v].written
          /\ local' \in [Writers -> LocalRecords]
          /\ local'[v].written = n /\ local'[v].base = local[v].base
          /\ local'[v].unlinked = local[v].unlinked
          /\ \A w \in Writers \ {v} : local'[w] = local[w]
  <2>1. CASE v \in Generators
    <3>1. local[v].written + 1 \in Nat /\ local' = [local EXCEPT ![v].written = local[v].written + 1]
      BY <1>1, <2>1 DEF OpenSidecar
    <3>2. /\ local' \in [Writers -> LocalRecords]
          /\ local'[v].written = local[v].written + 1 /\ local'[v].base = local[v].base
          /\ local'[v].unlinked = local[v].unlinked
          /\ \A w \in Writers \ {v} : local'[w] = local[w]
      BY <3>1, <1>1, WrittenSet
    <3> QED BY <3>2, <2>1
  <2>2. CASE v \notin Generators
    BY <1>1, <2>2 DEF OpenSidecar, TypeOK
  <2> QED BY <2>1, <2>2
<1>8. TypeOK'
  <2>1. \/ local'[v].written <= Len(Outputs[v])
        \/ v \in Generators /\ local'[v].written = Len(Outputs[v]) + 1
    BY <1>1, <1>3, <1>7
  <2>2. \A w \in Writers \ {v} :
            \/ local'[w].written <= Len(Outputs[w])
            \/ w \in Generators /\ local'[w].written = Len(Outputs[w]) + 1
    BY <1>1, <1>7 DEF TypeOK
  <2>3. source' \in [{"root", "includes"} -> Revisions] /\ plan' \in Plans
    BY <1>1, <1>4 DEF TypeOK
  <2> QED BY <1>2, <1>5, <1>7, <2>1, <2>2, <2>3 DEF TypeOK
<1>90. Unlinked \subseteq Unlinked'
  BY <1>7, StaysUnlinked
<1>9. Touches(v)
  BY <1>1, <1>2, <1>4, <1>6, <1>7, <1>90 DEF Touches
<1>10. Kept(v)'
  <2>1. \A i \in Parts(v) : i <= local[v].written
    BY <1>1, <1>3 DEF Parts
  <2>2. Kept(v)
    BY <1>1 DEF WInv
  <2>3. \A i \in Parts(v) : Outputs[v][i] \in Unlinked' \/ disk'[Outputs[v][i]] = Whole(v)
    BY <1>1, <1>6, <1>90, <2>1, <2>2 DEF Kept
  <2>4. \A i, j \in Parts(v) : i < j =>
            Outputs[v][j] \in Unlinked' \/ Outputs[v][i] # Outputs[v][j]
    BY <1>90, <2>1, <2>2 DEF Kept
  <2>5. disk'[Sidecar[v]].by = v
    BY <1>1, <1>6
  <2> QED BY <2>3, <2>4, <2>5 DEF Kept, Whole, Parts
<1>11. Opened(v)' /\ Early(v)'
  BY <1>1, <1>2, <1>7 DEF Opened, WInv, Early
<1>12. Past(v)'
  BY <1>1, <1>2, <1>3, <1>6, <1>7 DEF Past
<1> QED BY <1>8, <1>9, <1>10, <1>11, <1>12, NoisyStep DEF WInv

(* A step that changes at most the sidecar and counts no file *)
LEMMA SidecarStep ==
    ASSUME IInv, NEW v \in Writers, NEW from \in PcValues, NEW to \in {"done", "removing"},
           Goto(v, from, to), to = "done" => from = "closing",
           disk' \in [Files -> FileRecords],
           \A f \in Files : f # Sidecar[v] => disk'[f] = disk[f],
           \/ disk'[Sidecar[v]] = disk[Sidecar[v]]
           \/ disk'[Sidecar[v]].by = v /\ disk[Sidecar[v]].by = v
           \/ disk'[Sidecar[v]].by = Nobody /\ Sidecar[v] \in Unlinked',
           disk'[Sidecar[v]].by = v => to = "done",
           Unlinked \subseteq Unlinked',
           local' \in [Writers -> LocalRecords],
           local'[v].written = local[v].written, local'[v].base = local[v].base,
           \A w \in Writers \ {v} : local'[w] = local[w],
           source' = source, plan' = plan
    PROVE  IInv'
<1>1. /\ TypeOK /\ WInv(v) /\ v # Nobody
      /\ Finished(v) = Whole(v)
      /\ Sidecar[v] \in Files
      /\ \A i \in Parts(v) : Outputs[v][i] \in Files \ {Sidecar[v]}
  BY Known
<1>2. /\ pc[v] = from /\ pc'[v] = to
      /\ \A w \in Writers \ {v} : pc'[w] = pc[w]
      /\ pc' \in [Writers -> PcValues]
  BY <1>1, GotoFrame, GotoTyped DEF PcValues, EndPcs
<1>3. disk \in [Files -> FileRecords]
  BY <1>1 DEF TypeOK
<1>6. TypeOK'
  <2>1. \A w \in Writers : local'[w].written = local[w].written
    OBVIOUS
  <2> QED BY <1>1, <1>2, <1>3, <2>1 DEF TypeOK
<1>7. Touches(v)
  BY <1>1, <1>2 DEF Touches
<1>8. Kept(v)'
  <2>1. Kept(v)
    BY <1>1 DEF WInv
  <2>2. \A i \in Parts(v) : disk'[Outputs[v][i]] = disk[Outputs[v][i]]
    BY <1>1
  <2>3. disk[Sidecar[v]].by = v => disk'[Sidecar[v]].by = v \/ Sidecar[v] \in Unlinked'
    OBVIOUS
  <2> QED BY <2>1, <2>2, <2>3 DEF Kept, Whole, Parts
<1>9. Opened(v)' /\ Early(v)'
  BY <1>1, <1>2 DEF Opened, WInv, Early
<1>10. Past(v)'
  BY <1>1, <1>2 DEF WInv, Past
<1> QED BY <1>6, <1>7, <1>8, <1>9, <1>10, NoisyStep DEF WInv

LEMMA SidecarSteps ==
    ASSUME IInv, NEW v \in Writers, WriteSidecar(v) \/ RemoveAudit(v)
    PROVE  IInv'
<1>1. /\ Finished(v) \in FileRecords /\ Absent \in FileRecords
      /\ "closing" \in PcValues /\ "failing" \in PcValues
  BY CreatedTyped DEF IInv, PcValues
<1>2. /\ disk \in [Files -> FileRecords] /\ Sidecar[v] \in Files /\ v # Nobody
      /\ local \in [Writers -> LocalRecords]
  BY WritersAssumption DEF IInv, TypeOK
<1>3. CASE WriteSidecar(v)
  <2>1. Goto(v, "closing", "done") /\ source' = source /\ plan' = plan /\ local' = local
    BY <1>3 DEF WriteSidecar
  <2>2. disk' \in [Files -> FileRecords]
    BY <1>1, <1>2, <1>3 DEF WriteSidecar
  <2>3. \A f \in Files : f # Sidecar[v] => disk'[f] = disk[f]
    BY <1>2, <1>3 DEF WriteSidecar
  <2>4. \/ disk'[Sidecar[v]] = disk[Sidecar[v]]
        \/ disk'[Sidecar[v]] = Finished(v) /\ disk[Sidecar[v]].by = v
    BY <1>2, <1>3 DEF WriteSidecar
  <2>5. \/ disk'[Sidecar[v]] = disk[Sidecar[v]]
        \/ disk'[Sidecar[v]].by = v /\ disk[Sidecar[v]].by = v
    BY <2>4 DEF Finished
  <2>6. Unlinked' = Unlinked
    BY <2>1 DEF Unlinked
  <2>7. local' \in [Writers -> LocalRecords] /\ local'[v] = local[v]
    BY <1>2, <2>1
  <2> QED BY <1>1, <2>1, <2>2, <2>3, <2>5, <2>6, <2>7, SidecarStep
<1>4. CASE RemoveAudit(v)
  <2>1. /\ Goto(v, "failing", "removing") /\ source' = source /\ plan' = plan /\ v \in Appliers
        /\ local' = [local EXCEPT ![v].unlinked = TRUE]
    BY <1>4 DEF RemoveAudit
  <2>2. /\ disk' \in [Files -> FileRecords]
        /\ \A f \in Files : f # Sidecar[v] => disk'[f] = disk[f]
        /\ disk'[Sidecar[v]] = Absent
    BY <1>1, <1>2, <1>4 DEF RemoveAudit
  <2>3. disk'[Sidecar[v]].by = Nobody
    BY <2>2 DEF Absent
  <2>4. local' \in [Writers -> LocalRecords] /\ \A w \in Writers \ {v} : local'[w] = local[w]
    BY <2>1, LocalTyped DEF IInv
  <2>5. /\ local'[v].written = local[v].written /\ local'[v].base = local[v].base
        /\ local'[v].unlinked
    BY <1>2, <2>1 DEF LocalRecords
  <2>6. Unlinked \subseteq Unlinked' /\ Sidecar[v] \in Unlinked'
    BY <2>1, <2>4, <2>5, StaysUnlinked DEF Unlinked
  <2> QED BY <1>1, <1>2, <2>1, <2>2, <2>3, <2>4, <2>5, <2>6, SidecarStep
<1> QED BY <1>3, <1>4

LEMMA RemoveOutputKeeps ==
    ASSUME IInv, NEW v \in Writers, RemoveOutput(v)
    PROVE  IInv'
<1> DEFINE n == local[v].written
           f == Target(v, n)
<1>1. /\ TypeOK /\ WInv(v) /\ v # Nobody
      /\ n \in Nat /\ Len(Outputs[v]) \in Nat
      /\ Sidecar[v] \in Files
      /\ \A i \in Parts(v) : Outputs[v][i] \in Files \ {Sidecar[v]}
  BY Known
<1>2. n > 0 /\ n - 1 \in Nat /\ pc[v] = "removing" /\ pc' = pc
      /\ source' = source /\ plan' = plan
      /\ disk' = [disk EXCEPT ![f] = Absent]
      /\ local' = [local EXCEPT ![v].written = n - 1]
  BY <1>1 DEF RemoveOutput
<1>3. /\ f \in Files
      /\ n \in Parts(v) => f = Outputs[v][n]
      /\ n \notin Parts(v) => f = Sidecar[v]
  BY <1>1 DEF Target
<1>4. disk' \in [Files -> FileRecords] /\ disk \in [Files -> FileRecords]
  BY <1>1, <1>2, CreatedTyped DEF TypeOK
<1>5. /\ disk'[f] = Absent
      /\ \A g \in Files : g # f => disk'[g] = disk[g]
  BY <1>2, <1>3, <1>4
<1>6. /\ local' \in [Writers -> LocalRecords]
      /\ local'[v].written = n - 1 /\ local'[v].base = local[v].base
      /\ local'[v].unlinked = local[v].unlinked
      /\ \A w \in Writers \ {v} : local'[w] = local[w]
  BY <1>1, <1>2, WrittenSet
<1>7. TypeOK'
  <2>1. n <= Len(Outputs[v]) + 1
    BY <1>1 DEF TypeOK
  <2>2. n - 1 <= Len(Outputs[v])
    BY <1>1, <2>1
  <2>3. \A w \in Writers \ {v} :
            \/ local'[w].written <= Len(Outputs[w])
            \/ w \in Generators /\ local'[w].written = Len(Outputs[w]) + 1
    BY <1>1, <1>6 DEF TypeOK
  <2>4. /\ source' \in [{"root", "includes"} -> Revisions] /\ plan' \in Plans
        /\ pc' \in [Writers -> PcValues]
    BY <1>1, <1>2 DEF TypeOK
  <2> QED BY <1>4, <1>6, <2>2, <2>3, <2>4 DEF TypeOK
<1>80. Unlinked \subseteq Unlinked'
  BY <1>6, StaysUnlinked
<1>81. Kept(v)
  BY <1>1 DEF WInv
<1>8. Touches(v)
  <2>1. disk[f].by = v \/ f \in Unlinked
    <3>1. CASE n \in Parts(v)
      BY <1>1, <1>3, <1>81, <3>1 DEF Kept, Whole
    <3>2. CASE n \notin Parts(v)
      <4>1. n > Len(Outputs[v])
        BY <1>1, <1>2, <3>2 DEF Parts
      <4> QED BY <1>3, <1>81, <3>2, <4>1 DEF Kept
    <3> QED BY <3>1, <3>2
  <2>2. disk'[f].by = Nobody
    BY <1>5 DEF Absent
  <2> QED BY <1>2, <1>5, <1>6, <1>80, <2>1, <2>2 DEF Touches
<1>9. Kept(v)'
  <2>2. ASSUME NEW i \in Parts(v), i <= n - 1
        PROVE  Outputs[v][i] \in Unlinked' \/ disk'[Outputs[v][i]] = Whole(v)
    <3>1. i <= n /\ i < n /\ i \in Nat
      BY <1>1, <2>2 DEF Parts
    <3>2. Outputs[v][i] \in Unlinked \/ disk[Outputs[v][i]] = Whole(v)
      BY <1>81, <3>1 DEF Kept
    <3>3. Outputs[v][i] \in Unlinked \/ Outputs[v][i] # f
      <4>1. CASE n \in Parts(v)
        <5>1. Outputs[v][n] \in Unlinked \/ Outputs[v][i] # Outputs[v][n]
          BY <1>1, <1>81, <3>1, <4>1 DEF Kept
        <5> QED BY <1>3, <4>1, <5>1
      <4>2. CASE n \notin Parts(v)
        BY <1>1, <1>3, <4>2
      <4> QED BY <4>1, <4>2
    <3> QED BY <1>1, <1>5, <1>80, <3>2, <3>3
  <2>3. ASSUME NEW i \in Parts(v), NEW j \in Parts(v), i < j, j <= n - 1
        PROVE  Outputs[v][j] \in Unlinked' \/ Outputs[v][i] # Outputs[v][j]
    <3>1. j <= n
      BY <1>1, <2>3 DEF Parts
    <3> QED BY <1>80, <1>81, <2>3, <3>1 DEF Kept
  <2>4. ~(n - 1 > Len(Outputs[v]))
    BY <1>1 DEF TypeOK
  <2> QED BY <1>6, <2>2, <2>3, <2>4 DEF Kept, Whole, Parts
<1>10. Opened(v)' /\ Early(v)'
  BY <1>1, <1>2, <1>6 DEF Opened, WInv, Early
<1>11. Past(v)'
  <2>1. disk'[Sidecar[v]] = disk[Sidecar[v]] \/ disk'[Sidecar[v]].by = Nobody
    BY <1>1, <1>5 DEF Absent
  <2> QED BY <1>1, <1>2, <2>1 DEF WInv, Past
<1> QED BY <1>7, <1>8, <1>9, <1>10, <1>11, NoisyStep DEF WInv

-----------------------------------------------------------------------------

LEMMA IndInit == Init => IInv
<1> SUFFICES ASSUME Init PROVE IInv
  OBVIOUS
<1>1. TypeOK
  <2>1. source \in [{"root", "includes"} -> Revisions] /\ plan \in Plans
    BY DEF Init, Revisions, Plans
  <2>2. Absent \in FileRecords /\ disk \in [Files -> FileRecords]
    BY DEF Init, FileRecords, Absent, Revisions
  <2>3. pc \in [Writers -> PcValues]
    BY DEF Init, PcValues
  <2>4. NoLocal \in LocalRecords
    BY DEF NoLocal, LocalRecords, Revisions
  <2>5. local \in [Writers -> LocalRecords] /\ \A w \in Writers : local[w].written = 0
    BY <2>4 DEF Init, NoLocal
  <2>6. \A w \in Writers : Len(Outputs[w]) \in Nat
    BY WritersAssumption
  <2> QED BY <2>1, <2>2, <2>3, <2>5, <2>6 DEF TypeOK
<1>2. ASSUME NEW w \in Writers PROVE WInv(w)
  <2>1. /\ pc[w] \in {"reviewing", "checking"}
        /\ local[w].written = 0 /\ local[w].base = "planned"
        /\ \A f \in Files : disk[f].by = Nobody
    BY DEF Init, NoLocal, Absent
  <2>2. w # Nobody /\ Sidecar[w] \in Files
    BY WritersAssumption
  <2>3. Kept(w)
    <3>1. Len(Outputs[w]) \in Nat
      BY WritersAssumption
    <3> QED BY <2>1, <3>1 DEF Kept, Parts
  <2> QED BY <2>1, <2>2, <2>3 DEF WInv, Opened, Past, Early
<1> QED BY <1>1, <1>2 DEF IInv

LEMMA Environment ==
    ASSUME IInv, disk' = disk, pc' = pc, local' = local,
           source' \in [{"root", "includes"} -> Revisions], plan' \in Plans
    PROVE  IInv'
<1>1. TypeOK'
  BY DEF IInv, TypeOK
<1>2. ASSUME NEW w \in Writers PROVE WInv(w)'
  <2>1. WInv(w)
    BY DEF IInv
  <2>2. Unlinked' = Unlinked
    BY DEF Unlinked
  <2> QED BY <2>1, <2>2 DEF WInv, Kept, Opened, Past, Early, Whole, Parts, Current, Target, Created
<1> QED BY <1>1, <1>2 DEF IInv

(* The strengthening is inductive.                                           *)
THEOREM Inductive == IInv /\ [Next]_vars => IInv'
<1> SUFFICES ASSUME IInv, [Next]_vars PROVE IInv'
  OBVIOUS
<1>1. source \in [{"root", "includes"} -> Revisions] /\ plan \in Plans
  BY DEF IInv, TypeOK
<1>2. CASE \E v \in Writers : WriterStep(v) \/ WriteFails(v) \/ RemovalFails(v) \/ Crash(v)
  <2>1. PICK v \in Writers : WriterStep(v) \/ WriteFails(v) \/ RemovalFails(v) \/ Crash(v)
    BY <1>2
  <2> QED BY <2>1, QuietSteps, OpenOutputKeeps, WriteOutputKeeps, OpenSidecarKeeps,
             SidecarSteps, RemoveOutputKeeps DEF WriterStep
<1>3. CASE \E part \in {"root", "includes"} : Edit(part)
  BY <1>1, <1>3, Environment DEF Edit, Revisions
<1>4. CASE Replan
  BY <1>1, <1>4, Environment DEF Replan, Plans
<1>5. CASE UNCHANGED vars
  BY <1>1, <1>5, Environment DEF vars
<1> QED BY <1>2, <1>3, <1>4, <1>5 DEF Next

LEMMA Invariant == Spec => []IInv
BY IndInit, Inductive, PTL DEF Spec

(* For any number of commands, outputs and faults the variables keep their   *)
(* types; apply_plan never counts its audit among the files it wrote.        *)
THEOREM TypeCorrect == Spec => []TypeOK
<1>1. IInv => TypeOK
  BY DEF IInv
<1> QED BY <1>1, Invariant, PTL

LEMMA DoneIsIntact ==
    ASSUME IInv, NEW w \in Writers, pc[w] = "done"
    PROVE  Intact(w)
<1>1. WInv(w) /\ local[w].written \in Nat /\ Len(Outputs[w]) \in Nat
  BY Known
<1>2. local[w].written >= Len(Outputs[w])
  BY <1>1 DEF WInv, Past
<1>3. \A i \in Parts(w) : i <= local[w].written
  BY <1>1, <1>2 DEF Parts
<1> QED BY <1>1, <1>3 DEF WInv, Kept, Intact

(* The outputs of a command that reported success survive all competitors,   *)
(* crashes and failing rollbacks, whatever paths these have been given, but  *)
(* for a file that a failed application had been given as its audit path.    *)
THEOREM SuccessSurvives == Spec => []DoneIsComplete
<1>1. IInv => DoneIsComplete
  BY DoneIsIntact DEF DoneIsComplete
<1> QED BY <1>1, Invariant, PTL

(* A finished audit or manifest always stands beside its finished outputs,   *)
(* with the same exception.                                                  *)
THEOREM SidecarIsTrue == Spec => []SidecarVouches
<1>1. ASSUME IInv PROVE SidecarVouches
  <2>1. ASSUME NEW w \in Writers, disk[Sidecar[w]].by = w, disk[Sidecar[w]].whole
        PROVE  Intact(w)
    <3>1. pc[w] = "done"
      BY <1>1, <2>1 DEF IInv, WInv, Past
    <3> QED BY <1>1, <3>1, DoneIsIntact
  <2> QED BY <2>1 DEF SidecarVouches
<1> QED BY <1>1, Invariant, PTL
-----------------------------------------------------------------------------
(* What a command that failed leaves behind                                  *)

(* The files of w that it does not count as written.                         *)
Counted(w) == {Target(w, i) : i \in 1 .. local[w].written}
Spare(w) == Leftovers(w) \ Counted(w)
Audit(w) == IF w \in Appliers THEN {Sidecar[w]} ELSE {}

(* It is the one that w has opened and not yet finished, and a rollback      *)
(* knows of it unless its body was torn.                                     *)
Loose(w) ==
    /\ \A f, g \in Spare(w) : f = g
    /\ pc[w] # "done" => \A f \in Spare(w) : ~disk[f].whole
    /\ Spare(w) # {} => pc[w] \in {"writing", "closing", "done", "failing", "removing",
                                   "raised", "stranded", "crashed"}
    /\ pc[w] = "writing" => Spare(w) \subseteq {Current(w)}
    /\ pc[w] \in {"closing", "done"} => Spare(w) \subseteq Audit(w)
    /\ pc[w] = "failing" => local[w].torn \/ Spare(w) \subseteq Audit(w)
    /\ pc[w] \in {"removing", "raised"} => local[w].torn \/ Spare(w) = {}
    /\ pc[w] = "raised" => local[w].written = 0

(* A step that adds no such file: the place decides the rest.                *)
LEMMA FewerSpare ==
    ASSUME NEW w \in Writers, Loose(w), Spare(w)' \subseteq Spare(w),
           \A f \in Spare(w)' : disk'[f] = disk[f],
           \/ /\ pc'[w] = pc[w] /\ local'[w].written = local[w].written
              /\ local'[w].torn = local[w].torn /\ Current(w)' = Current(w)
           \/ pc[w] # "done" /\ pc'[w] \in {"stranded", "crashed"}
           \/ /\ pc[w] # "done" /\ pc'[w] = "failing"
              /\ local'[w].torn \/ Spare(w)' \subseteq Audit(w)
           \/ /\ pc[w] # "done" /\ pc'[w] = "removing"
              /\ local'[w].torn \/ Spare(w)' = {}
           \/ /\ pc[w] = "removing" /\ pc'[w] = "raised"
              /\ local'[w].written = 0 /\ local'[w].torn = local[w].torn
           \/ Spare(w) = {} /\ pc'[w] # "raised"
    PROVE  Loose(w)'
<1> DEFINE before == Spare(w)
           after == Spare(w)'
<1>1. Loose(w)' =
          /\ \A f, g \in after : f = g
          /\ pc'[w] # "done" => \A f \in after : ~disk'[f].whole
          /\ after # {} => pc'[w] \in {"writing", "closing", "done", "failing", "removing",
                                       "raised", "stranded", "crashed"}
          /\ pc'[w] = "writing" => after \subseteq {Current(w)'}
          /\ pc'[w] \in {"closing", "done"} => after \subseteq Audit(w)
          /\ pc'[w] = "failing" => local'[w].torn \/ after \subseteq Audit(w)
          /\ pc'[w] \in {"removing", "raised"} => local'[w].torn \/ after = {}
          /\ pc'[w] = "raised" => local'[w].written = 0
  BY DEF Loose, Audit
<1>2. /\ \A f, g \in before : f = g
      /\ pc[w] # "done" => \A f \in before : ~disk[f].whole
      /\ before # {} => pc[w] \in {"writing", "closing", "done", "failing", "removing",
                                   "raised", "stranded", "crashed"}
      /\ pc[w] = "writing" => before \subseteq {Current(w)}
      /\ pc[w] \in {"closing", "done"} => before \subseteq Audit(w)
      /\ pc[w] = "failing" => local[w].torn \/ before \subseteq Audit(w)
      /\ pc[w] \in {"removing", "raised"} => local[w].torn \/ before = {}
      /\ pc[w] = "raised" => local[w].written = 0
  BY DEF Loose
<1>3. after \subseteq before /\ \A f \in after : disk'[f] = disk[f] OBVIOUS
<1> HIDE DEF before, after
<1>4. /\ \A f, g \in after : f = g
      /\ pc'[w] # "done" => \A f \in after : ~disk'[f].whole
      /\ after # {} => pc'[w] \in {"writing", "closing", "done", "failing", "removing",
                                   "raised", "stranded", "crashed"}
      /\ pc'[w] = "writing" => after \subseteq {Current(w)'}
      /\ pc'[w] \in {"closing", "done"} => after \subseteq Audit(w)
      /\ pc'[w] = "failing" => local'[w].torn \/ after \subseteq Audit(w)
      /\ pc'[w] \in {"removing", "raised"} => local'[w].torn \/ after = {}
      /\ pc'[w] = "raised" => local'[w].written = 0
  <2>1. CASE /\ pc'[w] = pc[w] /\ local'[w].written = local[w].written
             /\ local'[w].torn = local[w].torn /\ Current(w)' = Current(w)
    BY <1>2, <1>3, <2>1
  <2>2. CASE pc[w] # "done" /\ pc'[w] \in {"stranded", "crashed"}
    BY <1>2, <1>3, <2>2
  <2>3. CASE /\ pc[w] # "done" /\ pc'[w] = "failing"
             /\ local'[w].torn \/ after \subseteq Audit(w)
    BY <1>2, <1>3, <2>3
  <2>4. CASE /\ pc[w] # "done" /\ pc'[w] = "removing"
             /\ local'[w].torn \/ after = {}
    BY <1>2, <1>3, <2>4
  <2>5. CASE /\ pc[w] = "removing" /\ pc'[w] = "raised"
             /\ local'[w].written = 0 /\ local'[w].torn = local[w].torn
    BY <1>2, <1>3, <2>5
  <2>6. CASE before = {} /\ pc'[w] # "raised" BY <1>3, <2>6
  <2> QED BY <2>1, <2>2, <2>3, <2>4, <2>5, <2>6 DEF before, after
<1> QED BY <1>1, <1>4 DEF after

(* What a step of v does not do to others: it puts nothing in their name.    *)
Alone(v) ==
    /\ \A f \in Files : disk'[f] = disk[f] \/ disk'[f].by \in {v, Nobody}
    /\ \A w \in Writers \ {v} : pc'[w] = pc[w] /\ local'[w] = local[w]

(* The other commands can only take such a file away.                        *)
LEMMA OthersLeave ==
    ASSUME NEW v \in Writers, Alone(v), NEW w \in Writers, w # v, Loose(w)
    PROVE  Loose(w)'
<1>1. pc'[w] = pc[w] /\ local'[w] = local[w] /\ w # Nobody
  BY WritersAssumption DEF Alone
<1>2. \A f \in Files : disk'[f].by = w => disk'[f] = disk[f] BY <1>1 DEF Alone
<1>3. Counted(w)' = Counted(w) /\ Current(w)' = Current(w)
  BY <1>1 DEF Counted, Parts, Current, Target
<1>4. Spare(w)' \subseteq Spare(w) /\ \A f \in Spare(w)' : disk'[f] = disk[f]
  BY <1>2, <1>3 DEF Spare, Leftovers
<1> QED BY <1>1, <1>3, <1>4, FewerSpare

(* A command's own steps.                                                   *)
LEMMA LooseQuiet ==
    ASSUME IInv, NEW v \in Writers, Loose(v), NEW from, NEW to,
           Goto(v, from, to), disk' = disk,
           \A w \in Writers \ {v} : local'[w] = local[w],
           local'[v].written = local[v].written,
           \/ from # "done" /\ to \in {"stranded", "crashed"}
           \/ from \in {"opening", "verifying", "recording", "closing"} /\ to = "failing"
           \/ from = "writing" /\ to = "failing" /\ local'[v].torn
           \/ /\ from = "failing" /\ to = "removing" /\ v \in Generators
              /\ local'[v].torn = local[v].torn
           \/ /\ from = "removing" /\ to = "raised" /\ local[v].written = 0
              /\ local'[v].torn = local[v].torn
           \/ /\ from \in {"reviewing", "loading", "checking", "reading", "mapping", "verifying"}
              /\ to # "raised"
    PROVE  Alone(v) /\ Loose(v)'
<1>1. pc[v] = from /\ pc'[v] = to /\ \A w \in Writers \ {v} : pc'[w] = pc[w]
  BY GotoFrame DEF IInv
<1>2. Counted(v)' = Counted(v) BY DEF Counted, Target, Parts
<1>3. Spare(v)' = Spare(v) BY <1>2 DEF Spare, Leftovers
<1>4. from \in {"reviewing", "loading", "checking", "reading", "mapping", "opening", "verifying",
                "recording"} => Spare(v) = {}
  BY <1>1 DEF Loose
<1>5. from = "closing" => Spare(v) \subseteq Audit(v)
  BY <1>1 DEF Loose
<1>6. from = "failing" /\ v \in Generators => local[v].torn \/ Spare(v) = {}
  BY <1>1, WritersAssumption DEF Loose, Audit
<1>7. Loose(v)'
  BY <1>1, <1>3, <1>4, <1>5, <1>6, FewerSpare
<1> QED BY <1>1, <1>7 DEF Alone

LEMMA LooseStep ==
    ASSUME IInv, NEW v \in Writers, Loose(v),
           WriterStep(v) \/ WriteFails(v) \/ RemovalFails(v) \/ Crash(v)
    PROVE  Alone(v) /\ Loose(v)'
<1> USE DEF IInv
<1>1. /\ TypeOK /\ WInv(v) /\ v # Nobody
      /\ local[v].written \in Nat /\ Len(Outputs[v]) \in Nat
      /\ Sidecar[v] \in Files
      /\ \A i \in Parts(v) : Outputs[v][i] \in Files \ {Sidecar[v]}
  BY Known
<1>2. disk \in [Files -> FileRecords] /\ pc \in [Writers -> PcValues] /\ local \in [Writers -> LocalRecords]
  BY <1>1 DEF TypeOK
<1>4. CASE \/ Review(v) \/ ReviewRefuses(v) \/ PlanRefused(v) \/ LoadPlan(v)
           \/ CheckDestination(v) \/ DestinationTaken(v)
           \/ ReadSource(v) \/ SourceStale(v) \/ CheckOutputs(v)
  <2>1. PICK from \in {"reviewing", "loading", "checking", "reading", "mapping"},
             to \in {"loading", "checking", "reading", "mapping", "opening", "refused"} :
            Goto(v, from, to)
    <3>1. CASE Review(v) BY <3>1 DEF Review
    <3>2. CASE ReviewRefuses(v) BY <3>2 DEF ReviewRefuses
    <3>3. CASE PlanRefused(v) BY <3>3 DEF PlanRefused
    <3>4. CASE LoadPlan(v) BY <3>4 DEF LoadPlan
    <3>5. CASE CheckDestination(v) BY <3>5 DEF CheckDestination
    <3>6. CASE DestinationTaken(v) BY <3>6 DEF DestinationTaken
    <3>7. CASE ReadSource(v) BY <3>7 DEF ReadSource
    <3>8. CASE SourceStale(v) BY <3>8 DEF SourceStale
    <3>9. CASE CheckOutputs(v) BY <3>9 DEF CheckOutputs
    <3> QED BY <1>4, <3>1, <3>2, <3>3, <3>4, <3>5, <3>6, <3>7, <3>8, <3>9
  <2>2. disk' = disk /\ (local' = local \/ (\E r \in Plans : local' = [local EXCEPT ![v].reviewed = r])
                                       \/ (\E r \in Plans : local' = [local EXCEPT ![v].loaded = r])
                                       \/ (\E b \in Revisions : local' = [local EXCEPT ![v].base = b]))
    <3>1. plan \in Plans /\ Revision \in Revisions BY <1>1 DEF TypeOK, Revision, Revisions
    <3> QED BY <1>4, <3>1 DEF Review, ReviewRefuses, PlanRefused, LoadPlan, CheckDestination,
                              DestinationTaken, ReadSource, SourceStale, CheckOutputs
  <2>3. local'[v].written = local[v].written /\ \A w \in Writers \ {v} : local'[w] = local[w]
    BY <1>2, <2>2 DEF LocalRecords
  <2> QED BY <2>1, <2>2, <2>3, LooseQuiet
<1>5. CASE \/ OutputExists(v) \/ Verify(v) \/ VerifyFails(v) \/ SidecarExists(v) \/ KeepManifest(v)
           \/ RemovedAll(v) \/ RemovalFails(v) \/ Crash(v)
  <2>1. disk' = disk /\ local' = local
    BY <1>5 DEF OutputExists, Verify, VerifyFails, SidecarExists, KeepManifest, RemovedAll,
                RemovalFails, Crash
  <2>2. CASE OutputExists(v) BY <2>1, <2>2, LooseQuiet DEF OutputExists
  <2>3. CASE Verify(v) BY <2>1, <2>3, LooseQuiet DEF Verify
  <2>4. CASE VerifyFails(v) BY <2>1, <2>4, LooseQuiet DEF VerifyFails
  <2>5. CASE SidecarExists(v) BY <2>1, <2>5, LooseQuiet DEF SidecarExists
  <2>6. CASE KeepManifest(v) BY <2>1, <2>6, LooseQuiet DEF KeepManifest
  <2>7. CASE RemovedAll(v) BY <2>1, <2>7, LooseQuiet DEF RemovedAll
  <2>9. CASE RemovalFails(v)
    <3>1. PICK from \in {"failing", "removing"} : Goto(v, from, "stranded") BY <2>9 DEF RemovalFails
    <3> QED BY <2>1, <3>1, LooseQuiet
  <2>10. CASE Crash(v)
    <3>1. Goto(v, pc[v], "crashed") /\ pc[v] # "done" BY <2>10 DEF Crash, EndPcs
    <3> QED BY <2>1, <3>1, LooseQuiet
  <2> QED BY <1>5, <2>2, <2>3, <2>4, <2>5, <2>6, <2>7, <2>9, <2>10
<1>51. CASE WriteFails(v)
  <2>1. PICK from \in {"opening", "writing", "verifying", "recording", "closing"} :
            Goto(v, from, "failing")
    BY <1>51 DEF WriteFails
  <2>2. pc[v] = from BY <1>1, <2>1, GotoFrame
  <2>3. disk' = disk /\ local' = [local EXCEPT ![v].torn = (pc[v] = "writing")]
    BY <1>51 DEF WriteFails
  <2>4. /\ local'[v].written = local[v].written /\ local'[v].torn = (pc[v] = "writing")
        /\ \A w \in Writers \ {v} : local'[w] = local[w]
    BY <1>2, <2>3 DEF LocalRecords
  <2>5. CASE from = "writing" BY <2>1, <2>2, <2>3, <2>4, <2>5, LooseQuiet
  <2>6. CASE from # "writing" BY <2>1, <2>3, <2>4, <2>6, LooseQuiet
  <2> QED BY <2>5, <2>6
<1>6. CASE OpenOutput(v)
  <2>1. pc[v] = "opening" /\ pc'[v] = "writing" /\ \A w \in Writers \ {v} : pc'[w] = pc[w]
    BY <1>1, <1>6, GotoFrame DEF OpenOutput
  <2>2. Current(v) \in Files BY <1>1, CreatedTyped DEF Current
  <2>3. /\ disk[Current(v)].by = Nobody /\ local' = local
        /\ disk'[Current(v)] = Created(v)
        /\ \A f \in Files : f # Current(v) => disk'[f] = disk[f]
    BY <1>2, <1>6, <2>2 DEF OpenOutput, Exists
  <2>4. Counted(v)' = Counted(v) /\ Current(v)' = Current(v)
    BY <2>3 DEF Counted, Parts, Current, Target
  <2>5. Spare(v) = {} BY <2>1 DEF Loose
  <2>6. Spare(v)' \subseteq {Current(v)} BY <2>3, <2>4, <2>5 DEF Spare, Leftovers
  <2>7. Alone(v) BY <2>1, <2>3 DEF Alone, Created
  <2>8. \A f \in Spare(v)' : ~disk'[f].whole BY <2>3, <2>6 DEF Created
  <2>9. Loose(v)' BY <2>1, <2>4, <2>6, <2>8 DEF Loose
  <2> QED BY <2>7, <2>9
<1>7. CASE WriteOutput(v)
  <2> DEFINE n == local[v].written + 1
  <2>1. PICK to \in {"opening", "verifying"} : Goto(v, "writing", to) BY <1>7 DEF WriteOutput
  <2>2. pc[v] = "writing" /\ pc'[v] = to /\ \A w \in Writers \ {v} : pc'[w] = pc[w]
    BY <1>1, <2>1, GotoFrame
  <2>3. n \in Nat /\ Current(v) = Target(v, n) /\ Current(v) \in Files
    BY <1>1, CreatedTyped DEF Current
  <2>4. /\ disk'[Current(v)] = disk[Current(v)] \/ disk'[Current(v)] = Finished(v)
        /\ \A f \in Files : f # Current(v) => disk'[f] = disk[f]
        /\ local' = [local EXCEPT ![v].written = n]
    BY <1>1, <1>2, <1>7, <2>3 DEF WriteOutput
  <2>5. local'[v].written = n /\ \A w \in Writers \ {v} : local'[w] = local[w]
    BY <1>1, <2>3, <2>4, WrittenSet
  <2>6. Counted(v)' = {Target(v, i) : i \in 1 .. n}
    BY <2>5 DEF Counted, Target, Parts
  <2>7. Counted(v) \subseteq Counted(v)' /\ Current(v) \in Counted(v)'
    <3>1. 1 .. local[v].written \subseteq 1 .. n /\ n \in 1 .. n
      BY <1>1
    <3> QED BY <2>3, <2>6, <3>1 DEF Counted
  <2>8. Spare(v) \subseteq {Current(v)} BY <2>2 DEF Loose
  <2>9. Spare(v)' = {} BY <2>4, <2>7, <2>8 DEF Spare, Leftovers
  <2>10. Loose(v)' BY <2>2, <2>9 DEF Loose
  <2> QED BY <2>2, <2>4, <2>5, <2>10 DEF Alone, Finished
<1>8. CASE OpenSidecar(v)
  <2> DEFINE n == local[v].written
  <2>1. pc[v] = "recording" /\ pc'[v] = "closing" /\ \A w \in Writers \ {v} : pc'[w] = pc[w]
    BY <1>1, <1>8, GotoFrame DEF OpenSidecar
  <2>2. /\ disk[Sidecar[v]].by = Nobody
        /\ disk'[Sidecar[v]] = Created(v)
        /\ \A f \in Files : f # Sidecar[v] => disk'[f] = disk[f]
    BY <1>1, <1>2, <1>8 DEF OpenSidecar, Exists
  <2>3. n = Len(Outputs[v])
    BY <1>1, <2>1 DEF WInv, Past, Early
  <2>4. /\ \A w \in Writers \ {v} : local'[w] = local[w]
        /\ v \notin Generators => local'[v].written = n
        /\ v \in Generators => local'[v].written = n + 1
    <3>1. CASE v \in Generators
      <4>1. n + 1 \in Nat /\ local' = [local EXCEPT ![v].written = n + 1]
        BY <1>1, <1>8, <3>1 DEF OpenSidecar
      <4> QED BY <1>1, <3>1, <4>1, WrittenSet
    <3>2. CASE v \notin Generators BY <1>1, <1>8, <3>2 DEF OpenSidecar
    <3> QED BY <3>1, <3>2
  <2>5. Counted(v)' = {Target(v, i) : i \in 1 .. local'[v].written}
    BY DEF Counted, Target, Parts
  <2>6. /\ 1 .. n \subseteq 1 .. local'[v].written
        /\ v \in Generators => n + 1 \in 1 .. local'[v].written
    BY <1>1, <2>4
  <2>7. /\ Counted(v) \subseteq Counted(v)'
        /\ v \in Generators => Sidecar[v] \in Counted(v)'
    <3>1. Target(v, n + 1) = Sidecar[v]
      BY <1>1, <2>3 DEF Target, Parts
    <3> QED BY <2>5, <2>6, <3>1 DEF Counted
  <2>8. Spare(v) = {} BY <2>1 DEF Loose
  <2>9. Spare(v)' \subseteq Audit(v)
    <3>1. Spare(v)' \subseteq {Sidecar[v]} BY <2>2, <2>7, <2>8 DEF Spare, Leftovers
    <3> QED BY <2>7, <3>1 DEF Spare, Audit, Writers
  <2>10. \A f \in Spare(v)' : f = Sidecar[v] /\ ~disk'[f].whole
    BY <2>2, <2>9 DEF Created, Audit
  <2>11. Loose(v)' BY <2>1, <2>9, <2>10 DEF Loose, Audit
  <2> QED BY <2>1, <2>2, <2>4, <2>11 DEF Alone, Created
<1>9. CASE WriteSidecar(v)
  <2>1. pc[v] = "closing" /\ pc'[v] = "done" /\ \A w \in Writers \ {v} : pc'[w] = pc[w]
    BY <1>1, <1>9, GotoFrame DEF WriteSidecar
  <2>2. /\ disk'[Sidecar[v]] = disk[Sidecar[v]]
           \/ (disk[Sidecar[v]].by = v /\ disk'[Sidecar[v]] = Finished(v))
        /\ \A f \in Files : f # Sidecar[v] => disk'[f] = disk[f]
        /\ local' = local
    BY <1>1, <1>2, <1>9 DEF WriteSidecar
  <2>3. Counted(v)' = Counted(v) BY <2>2 DEF Counted, Target, Parts
  <2>4. Spare(v)' \subseteq Spare(v) BY <1>1, <2>2, <2>3 DEF Spare, Leftovers, Finished
  <2>5. Spare(v) \subseteq Audit(v) /\ \A f, g \in Spare(v) : f = g BY <2>1 DEF Loose
  <2>6. Loose(v)' BY <2>1, <2>4, <2>5 DEF Loose, Audit
  <2> QED BY <2>1, <2>2, <2>6 DEF Alone, Finished
<1>10. CASE RemoveAudit(v)
  <2>1. pc[v] = "failing" /\ pc'[v] = "removing" /\ \A w \in Writers \ {v} : pc'[w] = pc[w]
    BY <1>1, <1>10, GotoFrame DEF RemoveAudit
  <2>2. /\ disk'[Sidecar[v]].by = Nobody
        /\ \A f \in Files : f # Sidecar[v] => disk'[f] = disk[f]
        /\ v \in Appliers /\ local' = [local EXCEPT ![v].unlinked = TRUE]
    BY <1>1, <1>2, <1>10 DEF RemoveAudit, Absent
  <2>3. /\ local'[v].written = local[v].written /\ local'[v].torn = local[v].torn
        /\ \A w \in Writers \ {v} : local'[w] = local[w]
    BY <1>2, <2>2 DEF LocalRecords
  <2>4. Counted(v)' = Counted(v) BY <2>3 DEF Counted, Target, Parts
  <2>5. /\ Spare(v)' \subseteq Spare(v) \ {Sidecar[v]}
        /\ \A f \in Spare(v)' : disk'[f] = disk[f]
    BY <1>1, <2>2, <2>4 DEF Spare, Leftovers
  <2>6. local'[v].torn \/ Spare(v)' = {} BY <2>1, <2>2, <2>3, <2>5 DEF Loose, Audit
  <2>7. Loose(v)' BY <2>1, <2>5, <2>6, FewerSpare
  <2> QED BY <2>1, <2>2, <2>3, <2>7 DEF Alone
<1>11. CASE RemoveOutput(v)
  <2> DEFINE n == local[v].written
             t == Target(v, n)
  <2>1. /\ pc[v] = "removing" /\ pc' = pc /\ n > 0 /\ n - 1 \in Nat
        /\ disk' = [disk EXCEPT ![t] = Absent]
        /\ local' = [local EXCEPT ![v].written = n - 1]
    BY <1>1, <1>11 DEF RemoveOutput
  <2>2. t \in Files BY <1>1, CreatedTyped
  <2>3. /\ disk'[t].by = Nobody
        /\ \A f \in Files : f # t => disk'[f] = disk[f]
    BY <1>2, <2>1, <2>2 DEF Absent
  <2>4. /\ local'[v].written = n - 1 /\ local'[v].torn = local[v].torn
        /\ \A w \in Writers \ {v} : local'[w] = local[w]
    BY <1>1, <2>1, WrittenSet
  <2>5. \A f \in Counted(v) : f \in Counted(v)' \/ f = t
    <3>1. Counted(v)' = {Target(v, i) : i \in 1 .. (n - 1)}
      BY <2>4 DEF Counted, Target, Parts
    <3>2. ASSUME NEW i \in 1 .. n PROVE i \in 1 .. (n - 1) \/ i = n
      BY <1>1
    <3> QED BY <3>1, <3>2 DEF Counted
  <2>6. Spare(v)' \subseteq Spare(v) /\ \A f \in Spare(v)' : disk'[f] = disk[f]
    BY <1>1, <2>3, <2>5 DEF Spare, Leftovers
  <2>7. local[v].torn \/ Spare(v) = {} BY <2>1 DEF Loose
  <2>8. Loose(v)' BY <2>1, <2>4, <2>6, <2>7, FewerSpare
  <2> QED BY <2>1, <2>3, <2>4, <2>8 DEF Alone
<1> QED BY <1>4, <1>5, <1>51, <1>6, <1>7, <1>8, <1>9, <1>10, <1>11 DEF WriterStep

LInv == IInv /\ \A w \in Writers : Loose(w)

LEMMA LooseInit == Init => \A w \in Writers : Loose(w)
<1> SUFFICES ASSUME Init, NEW w \in Writers PROVE Loose(w) OBVIOUS
<1>1. Spare(w) = {} BY WritersAssumption DEF Init, Absent, Spare, Leftovers
<1>2. pc[w] \in {"reviewing", "checking"} BY DEF Init
<1> QED BY <1>1, <1>2 DEF Loose

LEMMA LooseNext == LInv /\ [Next]_vars => LInv'
<1> SUFFICES ASSUME LInv, [Next]_vars PROVE LInv' OBVIOUS
<1> USE DEF LInv
<1>1. IInv' BY Inductive
<1>2. CASE \E v \in Writers : WriterStep(v) \/ WriteFails(v) \/ RemovalFails(v) \/ Crash(v)
  <2>1. PICK v \in Writers : WriterStep(v) \/ WriteFails(v) \/ RemovalFails(v) \/ Crash(v)
    BY <1>2
  <2>2. Alone(v) /\ Loose(v)' BY <2>1, LooseStep
  <2>3. ASSUME NEW w \in Writers, w # v PROVE Loose(w)' BY <2>2, <2>3, OthersLeave
  <2> QED BY <1>1, <2>2, <2>3
<1>3. ASSUME disk' = disk, pc' = pc, local' = local PROVE LInv'
  <2>1. ASSUME NEW w \in Writers PROVE Loose(w)'
    BY <1>3 DEF Loose, Spare, Leftovers, Counted, Parts, Current, Target, Audit
  <2> QED BY <1>1, <2>1
<1> QED BY <1>2, <1>3 DEF Next, Edit, Replan, vars

(* A command that failed and could roll back leaves nothing, or the one      *)
(* incomplete file whose body it could not write, whatever its competitors   *)
(* do.                                                                       *)
THEOREM FailureIsClean == Spec => []FailureLeavesNoDeck
<1>1. ASSUME LInv PROVE FailureLeavesNoDeck
  <2> SUFFICES ASSUME NEW w \in Writers, pc[w] \in {"refused", "raised"}
               PROVE  \/ Leftovers(w) = {}
                      \/ local[w].torn /\ \E f \in Files : Leftovers(w) = {f} /\ ~disk[f].whole
    BY DEF FailureLeavesNoDeck
  <2>1. Loose(w) /\ WInv(w) BY <1>1 DEF LInv, IInv
  <2>2. local[w].written = 0 BY <2>1 DEF Loose, WInv, Early
  <2>3. Counted(w) = {} BY <2>2 DEF Counted
  <2>4. Leftovers(w) = Spare(w) /\ Leftovers(w) \subseteq Files BY <2>3 DEF Spare, Leftovers
  <2>5. CASE Spare(w) = {} BY <2>4, <2>5
  <2>6. CASE Spare(w) # {}
    <3>1. PICK f \in Spare(w) : TRUE BY <2>6
    <3>2. Spare(w) = {f} /\ ~disk[f].whole /\ local[w].torn
      BY <2>1, <2>6, <3>1 DEF Loose
    <3> QED BY <2>4, <3>2
  <2> QED BY <2>5, <2>6
<1>2. Spec => []LInv BY IndInit, LooseInit, LooseNext, PTL DEF Spec, LInv
<1> QED BY <1>1, <1>2, PTL
=============================================================================
