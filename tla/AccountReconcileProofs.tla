----------------------- MODULE AccountReconcileProofs -----------------------
(***************************************************************************)
(* The reconcile job beside any number of other runs and editors: a writer  *)
(* whose reading is still true never takes the last administrator, and a    *)
(* run that Keycloak answered alike throughout closes nobody who is there,  *)
(* for any accounts and any ceiling below 100 percent.                      *)
(*                                                                          *)
(* RunHolds and EditHolds carry what was read from the read to the write;   *)
(* RunIsTrue carries how Keycloak answered to the moment the ceiling is     *)
(* applied, where a renamed realm has lost everybody who was checked.       *)
(***************************************************************************)
EXTENDS AccountReconcile, FiniteSetTheorems, TLAPS

-----------------------------------------------------------------------------
(* Types and sizes.                                                         *)

LEMMA NoTypes == NoRun \in Run /\ NoEdit \in Edit /\ NoRun.phase = "idle" /\ NoEdit.kind = "none"
BY DEF NoRun, NoEdit, Run, Edit, Role

LEMMA RunTypes ==
  ASSUME TypeOK, NEW j \in Job
  PROVE  /\ job[j] \in Run
         /\ job[j].checked \in SUBSET User /\ job[j].admin \in SUBSET User
         /\ job[j].todo \in SUBSET User /\ job[j].gone \in SUBSET User
         /\ job[j].admins \in SUBSET User
BY DEF TypeOK, Run

LEMMA Admins ==
  ActiveAdmins(account) \in SUBSET User /\ IsFiniteSet(ActiveAdmins(account))
BY UserAssumption, FS_Subset DEF ActiveAdmins

\* All of those checked are more than any share below a hundred percent of them.
LEMMA AllIsBeyond ==
  ASSUME NEW S \in SUBSET User, S # {}
  PROVE  100 * Cardinality(S) > Ceiling * Cardinality(S)
<1>1. IsFiniteSet(S)
  BY UserAssumption, FS_Subset
<1>2. Cardinality(S) \in Nat \ {0}
  BY <1>1, FS_CardinalityType, FS_EmptySet
<1>3. \A c \in Nat \ {0}, a \in 0..99 : 100 * c > a * c
  OBVIOUS
<1> QED BY <1>2, <1>3, BoundAssumption

\* Two administrators less one are still one.
LEMMA OneMoreRemains ==
  ASSUME NEW S \in SUBSET User, NEW u, ~(Cardinality(S) <= 1)
  PROVE  S \ {u} # {}
<1> SUFFICES ASSUME S \ {u} = {} PROVE FALSE
  OBVIOUS
<1>1. S = {} \/ S = {u}
  OBVIOUS
<1>2. Cardinality(S) = 0 \/ Cardinality(S) = 1
  BY <1>1, FS_EmptySet, FS_Singleton
<1> QED BY <1>2

-----------------------------------------------------------------------------
(* What a step leaves alone.                                                *)

\* A run in which nothing was written.
LEMMA RunKept ==
  ASSUME IInv, NEW j \in Job, job'[j] = job[j], account' = account,
         j \notin stale' => j \notin stale \/ job[j].phase = "idle"
  PROVE  RunHolds(j)'
BY DEF IInv, RunHolds

\* A run whose reading was written over.
LEMMA RunOvertaken ==
  ASSUME IInv, NEW j \in Job, job'[j] = job[j], job[j].phase = "idle" \/ j \in stale'
  PROVE  RunHolds(j)'
BY DEF IInv, RunHolds

LEMMA TruthKept ==
  ASSUME IInv, NEW j \in steady, job'[j] = job[j], present' = present, idp' = idp
  PROVE  RunIsTrue(j)'
BY DEF IInv, RunIsTrue

LEMMA EditKept ==
  ASSUME IInv, NEW e \in Editor, edit'[e] = edit[e], account' = account,
         e \notin stale' => e \notin stale \/ edit[e].kind = "none"
  PROVE  EditHolds(e)'
BY DEF IInv, EditHolds, Written

LEMMA EditOvertaken ==
  ASSUME NEW e \in Editor, edit'[e].kind = "none" \/ e \in stale'
  PROVE  EditHolds(e)'
BY DEF EditHolds

LEMMA InFlightPrimed ==
  InFlight' = {j \in Job : job'[j].phase # "idle"} \cup {e \in Editor : edit'[e].kind # "none"}
BY DEF InFlight

-----------------------------------------------------------------------------
(* The steps of a run that write no account.                                *)

\* One run takes a step of its own; the others, the editors and Keycloak are as before.
LEMMA RunMoves ==
  ASSUME IInv, NEW j \in Job, NEW n \in Run, job' = [job EXCEPT ![j] = n],
         UNCHANGED <<account, present, idp, edit>>,
         events' \in 0..MaxEvents,
         stale' = stale \/ stale' = stale \cap InFlight',
         steady' \subseteq steady \cup {j},
         RunHolds(j)', j \in steady' => RunIsTrue(j)'
  PROVE  IInv'
<1>1. TypeOK
  BY DEF IInv
<1>2. job' \in [Job -> Run] /\ job'[j] = n /\ \A i \in Job \ {j} : job'[i] = job[i]
  BY <1>1 DEF TypeOK
<1>3. TypeOK'
  BY <1>1, <1>2 DEF TypeOK
<1>4. ASSUME NEW i \in Job PROVE RunHolds(i)'
  <2>1. CASE i = j
    BY <2>1
  <2>2. CASE i # j
    <3>1. i \notin stale' => i \notin stale \/ job[i].phase = "idle"
      BY <1>2, <2>2, InFlightPrimed
    <3> QED BY <1>2, <2>2, <3>1, RunKept
  <2> QED BY <2>1, <2>2
<1>5. ASSUME NEW i \in steady' PROVE RunIsTrue(i)'
  <2>1. CASE i = j
    BY <2>1, <1>5
  <2>2. CASE i # j
    <3>1. i \in steady /\ i \in Job
      BY <1>1, <1>5, <2>2 DEF TypeOK
    <3> QED BY <1>2, <2>2, <3>1, TruthKept
  <2> QED BY <2>1, <2>2
<1>6. ASSUME NEW e \in Editor PROVE EditHolds(e)'
  <2>1. e \notin stale' => e \notin stale \/ edit[e].kind = "none"
    BY InFlightPrimed
  <2> QED BY <2>1, EditKept
<1> QED BY <1>3, <1>4, <1>5, <1>6 DEF IInv

LEMMA StartInv == ASSUME IInv, NEW j \in Job, Start(j) PROVE IInv'
<1> DEFINE n == [NoRun EXCEPT !.phase = "looking", !.checked = Active \cap Oidc,
                              !.todo = Active \cap Oidc,
                              !.admin = ActiveAdmins(account) \cap Oidc]
<1>1. TypeOK
  BY DEF IInv
<1>2. /\ n \in Run
      /\ n.phase = "looking" /\ n.checked = Active \cap Oidc /\ n.todo = Active \cap Oidc
      /\ n.admin = ActiveAdmins(account) \cap Oidc /\ n.gone = {}
  BY Admins DEF NoRun, Run, Active
<1>3. /\ job' = [job EXCEPT ![j] = n] /\ steady' = steady \cup {j}
      /\ UNCHANGED <<account, present, idp, edit, events, stale>> /\ Active \cap Oidc # {}
  BY DEF Start
<1> HIDE DEF n
<1>4. job'[j] = n
  BY <1>1, <1>3 DEF TypeOK
<1>5. RunHolds(j)'
  BY <1>2, <1>3, <1>4 DEF RunHolds
<1>6. RunIsTrue(j)'
  BY <1>2, <1>4 DEF RunIsTrue
<1>7. events' \in 0..MaxEvents
  BY <1>1, <1>3 DEF TypeOK
<1> QED BY <1>2, <1>3, <1>5, <1>6, <1>7, RunMoves

\* A lookup, whatever it says, keeps what was read; what it says must be true.
LEMMA LookedInv ==
  ASSUME IInv, NEW j \in Job, NEW u \in User, Asked(j, u), NEW G \in SUBSET User, Looked(j, u, G),
         job[j].gone \subseteq G, G \subseteq job[j].gone \cup {u},
         UNCHANGED <<account, present, idp, edit, stale>>,
         events' \in 0..MaxEvents, steady' \subseteq steady,
         j \in steady' => /\ idp = "up"      => G \cap present = {}
                          /\ idp = "renamed" => G = job[j].gone \cup {u}
                          /\ idp = "down"    => G = {}
  PROVE  IInv'
<1> DEFINE n == [job[j] EXCEPT !.todo = job[j].todo \ {u}, !.gone = G]
<1>1. TypeOK /\ RunHolds(j)
  BY DEF IInv
<1>2. /\ n \in Run
      /\ n.phase = "looking" /\ n.checked = job[j].checked /\ n.admin = job[j].admin
      /\ n.todo = job[j].todo \ {u} /\ n.gone = G
  BY <1>1, RunTypes DEF Run, Asked
<1>3. job' = [job EXCEPT ![j] = n]
  BY <1>1, RunTypes DEF Looked, TypeOK, Run
<1> HIDE DEF n
<1>4. job'[j] = n /\ u \in job[j].todo /\ job[j].phase = "looking"
  BY <1>1, <1>3 DEF TypeOK, Asked, First
<1>5. RunHolds(j)'
  BY <1>1, <1>2, <1>4 DEF RunHolds
<1>6. ASSUME j \in steady' PROVE RunIsTrue(j)'
  <2>1. RunIsTrue(j)
    BY <1>6 DEF IInv
  <2> QED BY <1>2, <1>4, <1>6, <2>1 DEF RunIsTrue
<1> QED BY <1>2, <1>3, <1>5, <1>6, RunMoves

LEMMA LookUpInv == ASSUME IInv, NEW j \in Job, NEW u \in User, LookUp(j, u) PROVE IInv'
<1> DEFINE G == IF idp = "up" /\ u \in present THEN job[j].gone ELSE job[j].gone \cup {u}
<1>1. TypeOK
  BY DEF IInv
<1>2. G \in SUBSET User /\ job[j].gone \subseteq G /\ G \subseteq job[j].gone \cup {u}
  BY <1>1, RunTypes
<1>3. /\ Asked(j, u) /\ Looked(j, u, G) /\ idp # "down"
      /\ UNCHANGED <<account, present, idp, edit, events, stale, steady>>
  BY DEF LookUp
<1>4. ASSUME j \in steady
      PROVE  /\ idp = "up"      => G \cap present = {}
             /\ idp = "renamed" => G = job[j].gone \cup {u}
  <2>1. RunIsTrue(j) /\ job[j].phase = "looking"
    BY <1>3, <1>4 DEF IInv, Asked
  <2> QED BY <2>1 DEF RunIsTrue
<1>5. events' \in 0..MaxEvents
  BY <1>1, <1>3 DEF TypeOK
<1> HIDE DEF G
<1> QED BY <1>2, <1>3, <1>4, <1>5, LookedInv

LEMMA LookUpFailsInv == ASSUME IInv, NEW j \in Job, NEW u \in User, LookUpFails(j, u) PROVE IInv'
<1>1. TypeOK /\ job[j].gone \in SUBSET User
  BY RunTypes DEF IInv
<1>2. /\ Asked(j, u) /\ Looked(j, u, job[j].gone)
      /\ UNCHANGED <<account, present, idp, edit, stale>>
  BY DEF LookUpFails
<1>3. events' \in 0..MaxEvents /\ steady' \subseteq steady
  BY <1>1, BoundAssumption DEF LookUpFails, Event, TypeOK
<1>4. ASSUME j \in steady' PROVE idp = "down" /\ job[j].gone = {}
  <2>1. idp = "down" /\ j \in steady
    BY <1>4 DEF LookUpFails
  <2>2. RunIsTrue(j) /\ job[j].phase = "looking"
    BY <1>2, <2>1 DEF IInv, Asked
  <2> QED BY <2>1, <2>2 DEF RunIsTrue
<1> QED BY <1>1, <1>2, <1>3, <1>4, LookedInv

\* The ceiling keeps a run that lost everybody from closing anybody.
LEMMA JudgeInv == ASSUME IInv, NEW j \in Job, Judge(j) PROVE IInv'
<1> DEFINE m == [job[j] EXCEPT !.phase = "closing", !.admins = ActiveAdmins(account)]
           n == IF job[j].gone = {} \/ BeyondCeiling(j) THEN NoRun ELSE m
<1>1. /\ TypeOK /\ RunHolds(j) /\ job[j].phase = "looking" /\ job[j].todo = {}
      /\ UNCHANGED <<account, present, idp, edit, events>>
      /\ stale' = stale \cap InFlight' /\ steady' = steady \cap InFlight'
  BY DEF IInv, Judge, Forget
<1>2. /\ m \in Run /\ m.phase = "closing" /\ m.todo = {}
      /\ m.gone = job[j].gone /\ m.checked = job[j].checked /\ m.admin = job[j].admin
      /\ m.admins = ActiveAdmins(account)
  BY <1>1, RunTypes, Admins DEF Run
<1>3. job' = [job EXCEPT ![j] = n]
  BY DEF Judge
<1>4. n \in Run
  BY <1>2, NoTypes
<1>5. job'[j] = n
  BY <1>1, <1>3 DEF TypeOK
<1>6. j \notin stale' => j \notin stale \/ n.phase = "idle"
  BY <1>1, <1>5, InFlightPrimed
<1> HIDE DEF m
<1>7. RunHolds(j)'
  <2>1. CASE n = NoRun
    BY <1>5, <2>1 DEF RunHolds, NoRun
  <2>2. CASE n = m /\ job[j].gone # {}
    BY <1>1, <1>2, <1>5, <1>6, <2>2 DEF RunHolds
  <2> QED BY <2>1, <2>2
<1>8. ASSUME j \in steady' PROVE RunIsTrue(j)'
  <2>1. RunIsTrue(j)
    BY <1>1, <1>8 DEF IInv
  <2>2. CASE n = NoRun
    BY <1>5, <2>2 DEF RunIsTrue, NoRun
  <2>3. CASE n = m /\ job[j].gone # {} /\ ~BeyondCeiling(j)
    <3>1. idp # "renamed"
      <4> SUFFICES ASSUME idp = "renamed" PROVE FALSE
        OBVIOUS
      <4>1. job[j].gone = job[j].checked
        BY <1>1, <2>1 DEF RunIsTrue
      <4>2. job[j].gone \in SUBSET User
        BY <1>1, RunTypes
      <4> QED BY <2>3, <4>1, <4>2, AllIsBeyond DEF BeyondCeiling
    <3>2. job[j].gone \cap present = {}
      BY <1>1, <2>1, <2>3, <3>1 DEF RunIsTrue, TypeOK
    <3> QED BY <1>1, <1>2, <1>5, <2>3, <3>2 DEF RunIsTrue
  <2> QED BY <2>2, <2>3
<1>9. events' \in 0..MaxEvents
  BY <1>1 DEF TypeOK
<1> HIDE DEF n
<1> QED BY <1>1, <1>3, <1>4, <1>7, <1>8, <1>9, RunMoves

\* What moving on to the next account does to the run.
LEMMA OnwardsEffect ==
  ASSUME IInv, NEW j \in Job, NEW u \in User, Leaver(j, u), NEW A \in SUBSET User, Onwards(j, u, A)
  PROVE  \E n \in Run :
           /\ job' = [job EXCEPT ![j] = n] /\ job'[j] = n
           /\ \/ n = NoRun
              \/ /\ n.phase = "closing" /\ n.todo = {} /\ n.gone # {} /\ n.checked # {}
                 /\ n.gone = job[j].gone \ {u} /\ n.gone \subseteq n.checked
                 /\ n.admin = job[j].admin /\ n.admins = A
<1> DEFINE m == [job[j] EXCEPT !.gone = job[j].gone \ {u}, !.admins = A]
           n == IF job[j].gone = {u} THEN NoRun ELSE m
<1>1. TypeOK /\ RunHolds(j) /\ job[j].phase = "closing" /\ u \in job[j].gone
  BY DEF IInv, Leaver, First
<1>2. /\ m \in Run /\ m.phase = "closing" /\ m.gone = job[j].gone \ {u} /\ m.admins = A
      /\ m.todo = job[j].todo /\ m.checked = job[j].checked /\ m.admin = job[j].admin
  BY <1>1, RunTypes DEF Run
<1>3. job' = [job EXCEPT ![j] = n]
  BY DEF Onwards
<1> HIDE DEF m
<1>4. n \in Run
  BY <1>2, NoTypes
<1>5. job'[j] = n
  BY <1>1, <1>3 DEF TypeOK
<1>6. \/ n = NoRun
      \/ /\ n.phase = "closing" /\ n.todo = {} /\ n.gone # {} /\ n.checked # {}
         /\ n.gone = job[j].gone \ {u} /\ n.gone \subseteq n.checked
         /\ n.admin = job[j].admin /\ n.admins = A
  BY <1>1, <1>2 DEF RunHolds
<1> HIDE DEF n
<1> QED BY <1>3, <1>4, <1>5, <1>6

LEMMA SpareInv == ASSUME IInv, NEW j \in Job, NEW u \in User, Spare(j, u) PROVE IInv'
<1>1. /\ TypeOK /\ RunHolds(j) /\ Leaver(j, u) /\ job[j].phase = "closing"
      /\ Onwards(j, u, job[j].admins) /\ job[j].admins \in SUBSET User
      /\ UNCHANGED <<account, present, idp, edit, events>>
      /\ stale' = stale \cap InFlight' /\ steady' = steady \cap InFlight'
  BY RunTypes DEF IInv, Spare, Leaver, Forget
<1>2. PICK n \in Run :
           /\ job' = [job EXCEPT ![j] = n] /\ job'[j] = n
           /\ \/ n = NoRun
              \/ /\ n.phase = "closing" /\ n.todo = {} /\ n.gone # {} /\ n.checked # {}
                 /\ n.gone = job[j].gone \ {u} /\ n.gone \subseteq n.checked
                 /\ n.admin = job[j].admin /\ n.admins = job[j].admins
  BY <1>1, OnwardsEffect
<1>3. j \notin stale' => j \notin stale \/ n.phase = "idle"
  BY <1>1, <1>2, InFlightPrimed
<1>4. RunHolds(j)'
  <2>1. CASE n = NoRun
    BY <1>2, <2>1 DEF RunHolds, NoRun
  <2>2. CASE n # NoRun
    BY <1>1, <1>2, <1>3, <2>2 DEF RunHolds
  <2> QED BY <2>1, <2>2
<1>5. ASSUME j \in steady' PROVE RunIsTrue(j)'
  <2>1. RunIsTrue(j)
    BY <1>1, <1>5 DEF IInv
  <2>2. CASE n = NoRun
    BY <1>2, <2>2 DEF RunIsTrue, NoRun
  <2>3. CASE n # NoRun
    BY <1>1, <1>2, <2>1, <2>3 DEF RunIsTrue
  <2> QED BY <2>2, <2>3
<1>6. events' \in 0..MaxEvents
  BY <1>1 DEF TypeOK
<1> QED BY <1>1, <1>2, <1>4, <1>5, <1>6, RunMoves

LEMMA CutOffInv == ASSUME IInv, NEW j \in Job, CutOff(j) PROVE IInv'
<1>1. /\ TypeOK /\ job' = [job EXCEPT ![j] = NoRun] /\ Event
      /\ UNCHANGED <<account, present, idp, edit>>
      /\ stale' = stale \cap InFlight' /\ steady' = steady \cap InFlight'
  BY DEF IInv, CutOff, Forget
<1>2. job'[j] = NoRun
  BY <1>1 DEF TypeOK
<1>3. RunHolds(j)' /\ RunIsTrue(j)'
  BY <1>2 DEF RunHolds, RunIsTrue, NoRun
<1>4. events' \in 0..MaxEvents
  BY <1>1, BoundAssumption DEF Event, TypeOK
<1> QED BY <1>1, <1>3, <1>4, NoTypes, RunMoves

-----------------------------------------------------------------------------
(* The steps that write an account.                                         *)

\* A run closes an account: it goes on knowing who the administrators are, and what the
\* others in flight have read is stale.
LEMMA CloseInv == ASSUME IInv, NEW j \in Job, NEW u \in User, Close(j, u) PROVE IInv'
<1> DEFINE A == job[j].admins \ {u}
<1>1. /\ TypeOK /\ RunHolds(j) /\ Leaver(j, u) /\ job[j].phase = "closing"
      /\ Onwards(j, u, A) /\ A \in SUBSET User
      /\ account' = [account EXCEPT ![u].active = FALSE]
      /\ UNCHANGED <<present, idp, edit, events>>
      /\ stale' = (stale \cup (InFlight \ {j})) \cap InFlight' /\ steady' = steady \cap InFlight'
  BY RunTypes DEF IInv, Close, Leaver, Writes
<1> HIDE DEF A
<1>2. PICK n \in Run :
           /\ job' = [job EXCEPT ![j] = n] /\ job'[j] = n
           /\ \/ n = NoRun
              \/ /\ n.phase = "closing" /\ n.todo = {} /\ n.gone # {} /\ n.checked # {}
                 /\ n.gone = job[j].gone \ {u} /\ n.gone \subseteq n.checked
                 /\ n.admin = job[j].admin /\ n.admins = A
  BY <1>1, OnwardsEffect
<1>3. account' \in [User -> Person] /\ ActiveAdmins(account') = ActiveAdmins(account) \ {u}
  BY <1>1 DEF TypeOK, Person, ActiveAdmins
<1>4. job' \in [Job -> Run] /\ \A i \in Job \ {j} : job'[i] = job[i]
  BY <1>1, <1>2 DEF TypeOK
<1>5. stale' \subseteq Job \cup Editor
  BY <1>1 DEF TypeOK, InFlight
<1>6. TypeOK'
  BY <1>1, <1>3, <1>4, <1>5 DEF TypeOK
<1>7. RunHolds(j)'
  <2>1. CASE n = NoRun
    BY <1>2, <2>1 DEF RunHolds, NoRun
  <2>2. CASE n # NoRun
    <3>1. j \notin stale' => j \notin stale
      BY <1>1, <1>2, <2>2, InFlightPrimed
    <3>2. j \notin stale => A = ActiveAdmins(account')
      BY <1>1, <1>3 DEF RunHolds, A
    <3> QED BY <1>1, <1>2, <1>3, <2>2, <3>1, <3>2 DEF RunHolds
  <2> QED BY <2>1, <2>2
<1>8. ASSUME NEW i \in Job PROVE RunHolds(i)'
  <2>1. CASE i = j
    BY <1>7, <2>1
  <2>2. CASE i # j
    <3>1. job[i].phase = "idle" \/ i \in stale'
      BY <1>1, <1>4, <2>2, InFlightPrimed DEF InFlight
    <3> QED BY <1>4, <2>2, <3>1, RunOvertaken
  <2> QED BY <2>1, <2>2
<1>9. ASSUME NEW i \in steady' PROVE RunIsTrue(i)'
  <2>1. i \in steady /\ i \in Job
    BY <1>1, <1>9 DEF TypeOK
  <2>2. CASE i # j
    BY <1>1, <1>4, <2>1, <2>2, TruthKept
  <2>3. CASE i = j
    <3>1. RunIsTrue(j)
      BY <2>1, <2>3 DEF IInv
    <3>2. CASE n = NoRun
      BY <1>2, <2>3, <3>2 DEF RunIsTrue, NoRun
    <3>3. CASE n # NoRun
      BY <1>1, <1>2, <2>3, <3>1, <3>3 DEF RunIsTrue
    <3> QED BY <3>2, <3>3
  <2> QED BY <2>2, <2>3
<1>10. ASSUME NEW e \in Editor PROVE EditHolds(e)'
  <2>1. edit'[e].kind = "none" \/ e \in stale'
    BY <1>1, InFlightPrimed, WriterAssumption DEF InFlight
  <2> QED BY <2>1, EditOvertaken
<1> QED BY <1>6, <1>8, <1>9, <1>10 DEF IInv

\* The guards of the users page and of set_role leave an administrator.
LEMMA CheckedInv ==
  ASSUME IInv, NEW e \in Editor, NEW m \in Edit, edit' = [edit EXCEPT ![e] = m],
         events' \in 0..MaxEvents, UNCHANGED <<account, present, idp, job, stale, steady>>,
         EditHolds(e)'
  PROVE  IInv'
<1>1. TypeOK
  BY DEF IInv
<1>2. edit' \in [Editor -> Edit] /\ \A d \in Editor \ {e} : edit'[d] = edit[d]
  BY <1>1 DEF TypeOK
<1>3. TypeOK'
  BY <1>1, <1>2 DEF TypeOK
<1>4. \A i \in Job : RunHolds(i)'
  BY RunKept
<1>5. ASSUME NEW i \in steady' PROVE RunIsTrue(i)'
  BY <1>1, TruthKept DEF TypeOK
<1>6. ASSUME NEW d \in Editor PROVE EditHolds(d)'
  BY <1>2, EditKept
<1> QED BY <1>3, <1>4, <1>5, <1>6 DEF IInv

LEMMA CheckRoleInv ==
  ASSUME IInv, NEW e \in Editor, NEW u \in User, NEW r \in Roles, CheckRole(e, u, r)
  PROVE  IInv'
<1> DEFINE m == [kind |-> "role", user |-> u, role |-> r, active |-> FALSE]
<1>1. TypeOK /\ ~SetRoleRefused(account, u, r) /\ edit' = [edit EXCEPT ![e] = m]
      /\ Event /\ UNCHANGED <<account, present, idp, job, stale, steady>>
  BY DEF IInv, CheckRole, Checked
<1>2. m \in Edit /\ m.kind = "role" /\ m.user = u /\ m.role = r
  BY WriterAssumption DEF Edit
<1> HIDE DEF m
<1>3. edit'[e] = m
  BY <1>1 DEF TypeOK
<1>4. ASSUME ActiveAdmins(account) # {} PROVE ActiveAdmins(Written(e)') # {}
  <2>1. Written(e)' = [account EXCEPT ![u].role = r]
    BY <1>1, <1>2, <1>3 DEF Written
  <2>2. CASE ActiveAdmins(account) \ {u} # {}
    BY <1>1, <2>1, <2>2 DEF ActiveAdmins, TypeOK, Person
  <2>3. CASE ActiveAdmins(account) \ {u} = {}
    <3>1. u \in ActiveAdmins(account) /\ r = "ADMIN"
      BY <1>1, <1>4, <2>3 DEF SetRoleRefused, ActiveAdmins
    <3> QED BY <1>1, <2>1, <3>1 DEF ActiveAdmins, TypeOK, Person
  <2> QED BY <2>2, <2>3
<1>5. EditHolds(e)'
  BY <1>1, <1>4 DEF EditHolds
<1>6. events' \in 0..MaxEvents
  BY <1>1, BoundAssumption DEF Event, TypeOK
<1> QED BY <1>1, <1>2, <1>5, <1>6, CheckedInv

LEMMA CheckActiveInv ==
  ASSUME IInv, NEW actor \in User, NEW u \in User, NEW b \in BOOLEAN, CheckActive(actor, u, b)
  PROVE  IInv'
<1> DEFINE m == [kind |-> "active", user |-> u, role |-> "VIEWER", active |-> b]
<1>1. /\ TypeOK /\ actor \in ActiveAdmins(account) /\ edit' = [edit EXCEPT ![Page] = m]
      /\ b \/ ~DeactivationRefused(account, actor, u)
      /\ Event /\ UNCHANGED <<account, present, idp, job, stale, steady>>
  BY DEF IInv, CheckActive, Checked
<1>2. m \in Edit /\ m.kind = "active" /\ m.user = u /\ m.active = b
  BY DEF Edit, Role
<1> HIDE DEF m
<1>3. edit'[Page] = m
  BY <1>1, WriterAssumption DEF TypeOK
<1>4. actor \in ActiveAdmins(Written(Page)')
  <2>1. Written(Page)' = [account EXCEPT ![u].active = b]
    BY <1>1, <1>2, <1>3 DEF Written
  <2>2. actor # u \/ b
    BY <1>1 DEF DeactivationRefused
  <2> QED BY <1>1, <2>1, <2>2 DEF ActiveAdmins, TypeOK, Person
<1>5. EditHolds(Page)'
  BY <1>4 DEF EditHolds
<1>6. events' \in 0..MaxEvents
  BY <1>1, BoundAssumption DEF Event, TypeOK
<1> QED BY <1>1, <1>2, <1>5, <1>6, CheckedInv, WriterAssumption

LEMMA WriteInv == ASSUME IInv, NEW e \in Editor, Write(e) PROVE IInv'
<1>1. /\ TypeOK /\ edit[e] \in Edit /\ edit[e].kind # "none"
      /\ account' = Written(e) /\ edit' = [edit EXCEPT ![e] = NoEdit]
      /\ UNCHANGED <<present, idp, job, events, steady>>
      /\ stale' = (stale \cup (InFlight \ {e})) \cap InFlight'
  BY DEF IInv, Write, Writes, TypeOK
<1>2. account' \in [User -> Person]
  <2> DEFINE u == edit[e].user
             byRole == [account[u] EXCEPT !.role = edit[e].role]
             byActive == [account[u] EXCEPT !.active = edit[e].active]
  <2>1. account \in [User -> Person] /\ edit[e].role \in Role /\ edit[e].active \in BOOLEAN
    BY <1>1 DEF TypeOK, Edit
  <2>2. account' = [account EXCEPT ![u] = byRole] \/ account' = [account EXCEPT ![u] = byActive]
    BY <1>1 DEF Written
  <2>3. u \in User => byRole \in Person /\ byActive \in Person
    BY <2>1 DEF Person
  <2> HIDE DEF byRole, byActive
  <2> QED BY <2>1, <2>2, <2>3
<1>3. edit' \in [Editor -> Edit] /\ edit'[e] = NoEdit /\ \A d \in Editor \ {e} : edit'[d] = edit[d]
  BY <1>1, NoTypes DEF TypeOK
<1>4. stale' \subseteq Job \cup Editor
  BY <1>1 DEF TypeOK, InFlight
<1>5. TypeOK'
  BY <1>1, <1>2, <1>3, <1>4 DEF TypeOK
<1>6. ASSUME NEW i \in Job PROVE RunHolds(i)'
  <2>1. job[i].phase = "idle" \/ i \in stale'
    BY <1>1, InFlightPrimed, WriterAssumption DEF InFlight
  <2> QED BY <1>1, <2>1, RunOvertaken
<1>7. ASSUME NEW i \in steady' PROVE RunIsTrue(i)'
  BY <1>1, TruthKept DEF TypeOK
<1>8. ASSUME NEW d \in Editor PROVE EditHolds(d)'
  <2>1. edit'[d].kind = "none" \/ d \in stale'
    BY <1>1, <1>3, InFlightPrimed, NoTypes DEF InFlight
  <2> QED BY <2>1, EditOvertaken
<1> QED BY <1>5, <1>6, <1>7, <1>8 DEF IInv

\* What happens at Keycloak leaves no run steady.
LEMMA OutsideInv ==
  ASSUME IInv, TypeOK', steady' = {}, UNCHANGED <<account, job, edit, stale>>
  PROVE  IInv'
<1>1. \A i \in Job : RunHolds(i)'
  BY RunKept
<1>2. \A d \in Editor : EditHolds(d)'
  BY EditKept
<1> QED BY <1>1, <1>2 DEF IInv

-----------------------------------------------------------------------------
(* The theorems.                                                            *)

LEMMA InitIInv == Init => IInv
<1> SUFFICES ASSUME Init PROVE IInv
  OBVIOUS
<1>1. account \in [User -> Person] /\ present \subseteq Oidc
  BY WriterAssumption DEF Init, Person
<1>2. job \in [Job -> Run] /\ edit \in [Editor -> Edit]
  BY NoTypes, Zenon DEF Init
<1>3. events \in 0..MaxEvents
  BY BoundAssumption DEF Init
<1>4. TypeOK
  BY <1>1, <1>2, <1>3 DEF Init, TypeOK
<1>5. \A j \in Job : RunHolds(j)
  BY DEF Init, RunHolds, NoRun
<1>6. \A e \in Editor : EditHolds(e)
  BY DEF Init, EditHolds, NoEdit
<1> QED BY <1>4, <1>5, <1>6 DEF IInv, Init

LEMMA NextIInv == IInv /\ [Next]_vars => IInv'
<1> SUFFICES ASSUME IInv, [Next]_vars PROVE IInv'
  OBVIOUS
<1>1. TypeOK
  BY DEF IInv
<1>2. CASE UNCHANGED vars
  <2>1. TypeOK'
    BY <1>1, <1>2 DEF TypeOK, vars
  <2>2. \A i \in Job : RunHolds(i)'
    BY <1>2, RunKept DEF vars
  <2>3. ASSUME NEW i \in steady' PROVE RunIsTrue(i)'
    BY <1>1, <1>2, TruthKept DEF TypeOK, vars
  <2>4. \A d \in Editor : EditHolds(d)'
    BY <1>2, EditKept DEF vars
  <2> QED BY <2>1, <2>2, <2>3, <2>4 DEF IInv
<1>3. ASSUME NEW j \in Job, StartForNobody(j) PROVE IInv'
  BY <1>2, <1>3 DEF StartForNobody
<1>4. ASSUME NEW j \in Job, Start(j) PROVE IInv'
  BY <1>4, StartInv
<1>5. ASSUME NEW j \in Job, Continue(j) PROVE IInv'
  BY <1>5, JudgeInv, LookUpInv, LookUpFailsInv, CloseInv, SpareInv DEF Continue
<1>6. ASSUME NEW j \in Job, CutOff(j) PROVE IInv'
  BY <1>6, CutOffInv
<1>7. ASSUME NEW e \in Editor, NEW u \in User, NEW r \in Roles, CheckRole(e, u, r) PROVE IInv'
  BY <1>7, CheckRoleInv
<1>8. ASSUME NEW actor \in User, NEW u \in User, NEW b \in BOOLEAN, CheckActive(actor, u, b)
      PROVE  IInv'
  BY <1>8, CheckActiveInv
<1>9. ASSUME NEW e \in Editor, Write(e) PROVE IInv'
  BY <1>9, WriteInv
<1>10. ASSUME Event PROVE events' \in 0..MaxEvents
  BY <1>1, <1>10, BoundAssumption DEF Event, TypeOK
<1>11. CASE PeopleChange
  <2>1. present' \subseteq Oidc
    BY <1>1, <1>11 DEF PeopleChange, TypeOK
  <2>2. TypeOK'
    BY <1>1, <1>10, <1>11, <2>1 DEF PeopleChange, TypeOK
  <2> QED BY <1>11, <2>2, OutsideInv DEF PeopleChange
<1>12. CASE KeycloakChanges
  <2>1. TypeOK'
    BY <1>1, <1>10, <1>12 DEF KeycloakChanges, TypeOK
  <2> QED BY <1>12, <2>1, OutsideInv DEF KeycloakChanges
<1> QED BY <1>2, <1>3, <1>4, <1>5, <1>6, <1>7, <1>8, <1>9, <1>11, <1>12 DEF Next

\* The strengthening holds in every state of AccountReconcile.
THEOREM ReconcileStrengthening == Spec => []IInv
<1> QED BY InitIInv, NextIInv, PTL DEF Spec

\* The step behind the next theorem.
LEMMA WriterSpares ==
  ASSUME IInv, NEW x \in (Job \cup Editor) \ stale, ActiveAdmins(account) # {},
         IF x \in Job THEN \E u \in User : Close(x, u) ELSE Write(x)
  PROVE  ActiveAdmins(account') # {}
<1>1. CASE x \in Job
  <2>1. PICK u \in User : Close(x, u)
    BY <1>1
  <2>2. /\ RunHolds(x) /\ TypeOK /\ job[x].phase = "closing" /\ u \in job[x].gone
        /\ ~OnlyAdmin(x, u) /\ account' = [account EXCEPT ![u].active = FALSE]
    BY <1>1, <2>1 DEF IInv, Close, Leaver, First
  <2>3. ActiveAdmins(account') = ActiveAdmins(account) \ {u}
    BY <2>2 DEF TypeOK, Person, ActiveAdmins
  <2>4. CASE u \notin job[x].admin
    BY <2>2, <2>3, <2>4 DEF RunHolds
  <2>5. CASE ~(Cardinality(job[x].admins) <= 1)
    <3>1. job[x].admins = ActiveAdmins(account)
      BY <2>2 DEF RunHolds
    <3> QED BY <2>3, <2>5, <3>1, Admins, OneMoreRemains
  <2> QED BY <2>2, <2>4, <2>5 DEF OnlyAdmin
<1>2. CASE x \notin Job
  BY <1>2 DEF IInv, Write, EditHolds
<1> QED BY <1>1, <1>2

\* The last administrator is taken only by a writer somebody has overtaken, for any number
\* of runs, pages and commands (jobs.py, auth.py and app.py guard it, each for itself).
THEOREM OnlyOvertakenWritersTakeTheLast == Spec => LastAdministratorIsSpared
<1>1. IInv /\ [Next]_vars =>
        [\A x \in (Job \cup Editor) \ stale :
            /\ IF x \in Job THEN \E u \in User : Close(x, u) ELSE Write(x)
            /\ ActiveAdmins(account) # {}
            => ActiveAdmins(account') # {}]_vars
  BY WriterSpares
<1> QED BY <1>1, ReconcileStrengthening, PTL DEF Spec, LastAdministratorIsSpared

\* An outage or a renamed realm that lasts through a run closes nobody, whatever the
\* accounts and whatever ceiling below 100 percent.
THEOREM OutagesCloseNobody == Spec => OutageClosesNobody
<1>1. IInv /\ [Next]_vars =>
        [\A j \in steady, u \in User : Close(j, u) => u \notin present]_vars
  BY DEF IInv, RunIsTrue, Close, Leaver, First
<1> QED BY <1>1, ReconcileStrengthening, PTL DEF Spec, OutageClosesNobody

=============================================================================
