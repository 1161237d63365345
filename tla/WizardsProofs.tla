----------------------------- MODULE WizardsProofs -----------------------------
(***************************************************************************)
(* Wizards: what the three forms keep, tick off, upload and locate, for    *)
(* any number of addresses, documents, inputs and submissions.             *)
(***************************************************************************)
EXTENDS Wizards, TLAPS

(***************************************************************************)
(* The requests in flight, with what their continuations closed over.      *)
(***************************************************************************)
GoodJob(job) == job.publish \/ PostingFields \ job.valid \subseteq StepDetails

IsCreate(t) ==
  /\ t.kind = "create" /\ {"kind", "live", "phase", "job"} \subseteq DOMAIN t
  /\ GoodJob(t.job)
IsSave(t) ==
  /\ t.kind = "save" /\ {"kind", "live", "step"} \subseteq DOMAIN t
  /\ t.step \in 0..4
\* The documents still to come and those registered are all that are required.
IsFinish(t, reg) ==
  /\ t.kind = "finish" /\ {"kind", "live", "phase", "doc", "rest"} \subseteq DOMAIN t
  /\ Required \subseteq reg \cup {t.doc} \cup t.rest
IsEvidence(t) ==
  /\ t.kind = "evidence" /\ {"kind", "live", "phase"} \subseteq DOMAIN t
  /\ t.phase \in Busy
IsFile(t) ==
  /\ t.kind = "file" /\ {"kind", "live", "photos"} \subseteq DOMAIN t
  /\ t.photos \in Nat /\ t.photos <= MaxEvidence

TaskOK(t, reg) == IsCreate(t) \/ IsSave(t) \/ IsFinish(t, reg) \/ IsEvidence(t) \/ IsFile(t)

Requests == \A t \in tasks : TaskOK(t, registered)

Evidences(ts) == {t \in ts : t.kind = "evidence"}

\* While a photo is uploaded there is room for it and no other is under way.
EvidenceInv ==
  /\ evidence \in Nat /\ evidence <= MaxEvidence
  /\ \A t \in Evidences(tasks) :
       /\ upload \in Busy /\ evidence < MaxEvidence
       /\ \A u \in Evidences(tasks) : u = t

\* The running uploads of the portfolio were counted when they were started.
FilesInv ==
  /\ files \in [urls : Nat, done : Nat, active : Nat]
  /\ ~overlapped => files.urls + files.active <= MaxFiles

Outcomes ==
  /\ CompletedSaved
  /\ \A job \in created : GoodJob(job)
  /\ \A n \in filed : n <= MaxEvidence

IInv == Requests /\ EvidenceInv /\ FilesInv /\ photos \in 0..MaxPhotos /\ Outcomes

\* The fields behind the step shown, and the only ones a suggestion can spoil.
BehindInv ==
  wizard \in {"posting", "dispute"} =>
    /\ step \in 0..6 /\ suggested \subseteq StepDetails
    /\ \A s \in 0..6 : s < step => StepFields[s] \ valid \subseteq suggested

\* A request orphaned by leaving its step is the same request.
LEMMA OrphanOK ==
  ASSUME NEW t, NEW reg, TaskOK(t, reg)
  PROVE  /\ TaskOK([t EXCEPT !.live = FALSE], reg)
         /\ [t EXCEPT !.live = FALSE].kind = t.kind
<1>1. CASE IsCreate(t)
  BY <1>1 DEF IsCreate, TaskOK
<1>2. CASE IsSave(t)
  BY <1>2 DEF IsSave, TaskOK
<1>3. CASE IsFinish(t, reg)
  BY <1>3 DEF IsFinish, TaskOK
<1>4. CASE IsEvidence(t)
  BY <1>4 DEF IsEvidence, TaskOK
<1>5. CASE IsFile(t)
  BY <1>5 DEF IsFile, TaskOK
<1>6. QED
  BY <1>1, <1>2, <1>3, <1>4, <1>5 DEF TaskOK

\* A step that ends or changes requests other than uploads of evidence, whether or
\* not it leaves the step of the form.
LEMMA RequestsStep ==
  ASSUME NEW ts, \A t \in ts : TaskOK(t, registered'),
         Evidences(ts) \subseteq Evidences(tasks),
         tasks' = ts \/ tasks' = Orphaned(ts),
         EvidenceInv, UNCHANGED <<upload, evidence>>
  PROVE  Requests' /\ EvidenceInv'
<1>1. \A t \in tasks' : TaskOK(t, registered')
  <2>1. \A t \in ts : TaskOK([t EXCEPT !.live = FALSE], registered')
    BY OrphanOK
  <2>2. QED
    BY <2>1 DEF Orphaned
<1>2. \A t \in Evidences(tasks') : \E u \in Evidences(tasks) :
        \/ tasks' = ts /\ t = u
        \/ tasks' = Orphaned(ts) /\ t = [u EXCEPT !.live = FALSE]
  <2>1. CASE tasks' = ts
    BY <2>1 DEF Evidences
  <2>2. CASE tasks' = Orphaned(ts)
    <3> SUFFICES ASSUME NEW t \in Orphaned(ts), t.kind = "evidence"
                 PROVE  \E u \in Evidences(tasks) : t = [u EXCEPT !.live = FALSE]
      BY <2>2 DEF Evidences
    <3>1. PICK u \in ts : t = [u EXCEPT !.live = FALSE]
      BY DEF Orphaned
    <3>2. u.kind = "evidence"
      BY <3>1, OrphanOK
    <3>3. QED
      BY <3>1, <3>2 DEF Evidences
  <2>3. QED
    BY <2>1, <2>2
<1>3. \A t, u \in Evidences(tasks) : t = u
  BY DEF EvidenceInv
<1>4. \A t, u \in Evidences(tasks') : t = u
  BY <1>2, <1>3
<1>5. QED
  BY <1>1, <1>2, <1>4 DEF Requests, EvidenceInv

\* Each field belongs to one step, and every step of posting comes before the last.
LEMMA FieldsOfSteps ==
  ASSUME wizard \in {"posting", "dispute"}
  PROVE  /\ LastStep \in 0..6
         /\ \A s, u \in 0..6 : s # u => StepFields[s] \cap StepFields[u] = {}
         /\ wizard = "posting" =>
              PostingFields \subseteq UNION {StepFields[s] : s \in 0..5}
<1>1. LastStep \in 0..6
  BY DEF LastStep
<1>2. CASE wizard = "posting"
  <2>1. /\ StepFields[0] = {"category"} /\ StepFields[1] = {"title", "description"}
        /\ StepFields[2] = {} /\ StepFields[3] = {"schedule"} /\ StepFields[4] = {}
        /\ StepFields[5] = {"bids"} /\ StepFields[6] = {}
    BY <1>2 DEF StepFields, PostingSteps, StepCategory, StepDetails, StepSchedule, StepAuction
  <2>2. \A s, u \in 0..6 : s # u => StepFields[s] \cap StepFields[u] = {}
    BY <2>1
  <2>3. PostingFields \subseteq UNION {StepFields[s] : s \in 0..5}
    BY <2>1 DEF PostingFields, StepCategory, StepDetails, StepSchedule, StepAuction
  <2>4. QED
    BY <1>1, <2>2, <2>3
<1>3. CASE wizard = "dispute"
  <2>1. /\ StepFields[0] = {"contract"} /\ StepFields[1] = {"reason"}
        /\ StepFields[2] = {"description"} /\ StepFields[3] = {} /\ StepFields[4] = {}
        /\ StepFields[5] = {} /\ StepFields[6] = {}
    BY <1>3 DEF StepFields, DisputeSteps
  <2>2. \A s, u \in 0..6 : s # u => StepFields[s] \cap StepFields[u] = {}
    BY <2>1
  <2>3. QED
    BY <1>1, <1>3, <2>2
<1>4. QED
  BY <1>2, <1>3

\* A draft is sent from the last step, so everything but the suggestions is good.
LEMMA DraftGood ==
  ASSUME BehindInv, wizard = "posting", step = LastStep
  PROVE  PostingFields \ valid \subseteq StepDetails
<1>1. step = 6 /\ suggested \subseteq StepDetails
  BY DEF BehindInv, LastStep
<1>2. \A s \in 0..5 : StepFields[s] \ valid \subseteq suggested
  BY <1>1 DEF BehindInv
<1>3. PostingFields \subseteq UNION {StepFields[s] : s \in 0..5}
  BY FieldsOfSteps
<1>4. QED
  BY <1>1, <1>2, <1>3

\* More registered documents only help.
LEMMA MoreRegistered ==
  ASSUME NEW t, NEW reg, NEW more, reg \subseteq more, TaskOK(t, reg)
  PROVE  TaskOK(t, more)
BY DEF TaskOK, IsFinish

\* What was published, ticked off and filed stays; what is saved can only grow.
LEMMA OutcomesKept ==
  ASSUME Outcomes, UNCHANGED <<created, completed, skipped, filed>>,
         saved \subseteq saved', registered \subseteq registered'
  PROVE  Outcomes'
BY DEF Outcomes, CompletedSaved

\* A step of the form that is left drops its thumbnails.
LEMMA FilesLeft ==
  ASSUME FilesInv, WizardConstants, UNCHANGED overlapped, files' = files \/ files' = NoFiles
  PROVE  FilesInv'
BY DEF FilesInv, NoFiles, WizardConstants

wizardData == <<tasks, upload, evidence, files, overlapped, photos, created, completed, skipped,
                saved, registered, filed>>

\* The steps that touch neither requests nor what they are about.
LEMMA Elsewhere == ASSUME IInv, UNCHANGED wizardData PROVE IInv'
BY DEF wizardData, IInv, Requests, EvidenceInv, FilesInv, Outcomes, CompletedSaved

\* A submitted request closes over good data.
LEMMA SubmitStep ==
  ASSUME IInv, NEW t, Submit(t), TaskOK(t, registered), t.kind # "evidence"
  PROVE  IInv'
<1> USE DEF posting, onboarding, dispute
<1>1. /\ tasks' = tasks \cup {t}
      /\ UNCHANGED <<upload, evidence, files, overlapped, photos, created, completed, skipped,
                     saved, registered, filed>>
  BY DEF Submit
<1>2. Requests' /\ EvidenceInv'
  <2>1. \A u \in tasks \cup {t} : TaskOK(u, registered')
    BY <1>1 DEF IInv, Requests
  <2>2. Evidences(tasks \cup {t}) \subseteq Evidences(tasks)
    BY DEF Evidences
  <2>3. QED
    BY <1>1, <2>1, <2>2, RequestsStep DEF IInv
<1>3. Outcomes' /\ FilesInv' /\ photos' \in 0..MaxPhotos
  BY <1>1, OutcomesKept DEF IInv, FilesInv
<1>4. QED
  BY <1>2, <1>3 DEF IInv

\* What the user submits: jobs, saves, documents and disputes.
LEMMA UserSubmits ==
  ASSUME IInv, BehindInv,
               \/ handleSave \/ handleFinish \/ handleSaveDraft \/ handleSubmit
               \/ \E match \in BOOLEAN : handlePublish(match)
  PROVE  IInv'
<1>1. ASSUME NEW match \in BOOLEAN, handlePublish(match) PROVE IInv'
  <2> DEFINE t == [kind |-> "create", id |-> submits, live |-> TRUE, phase |-> "creating",
                   job |-> Job(TRUE), match |-> match]
  <2>1. GoodJob(Job(TRUE))
    BY DEF GoodJob, Job
  <2>2. TaskOK(t, registered) /\ t.kind = "create"
    BY <2>1 DEF TaskOK, IsCreate
  <2>3. Submit(t)
    BY <1>1 DEF handlePublish, Create
  <2> HIDE DEF t
  <2>4. QED
    BY <2>2, <2>3, SubmitStep
<1>2. CASE handleSaveDraft
  <2> DEFINE t == [kind |-> "create", id |-> submits, live |-> TRUE, phase |-> "creating",
                   job |-> Job(FALSE), match |-> FALSE]
  <2>1. GoodJob(Job(FALSE))
    BY <1>2, DraftGood DEF handleSaveDraft, GoodJob, Job
  <2>2. TaskOK(t, registered) /\ t.kind = "create"
    BY <2>1 DEF TaskOK, IsCreate
  <2>3. Submit(t)
    BY <1>2 DEF handleSaveDraft, Create
  <2> HIDE DEF t
  <2>4. QED
    BY <2>2, <2>3, SubmitStep
<1>3. CASE handleSave
  <2> DEFINE t == [kind |-> "save", id |-> submits, live |-> TRUE, step |-> step]
  <2>1. TaskOK(t, registered) /\ t.kind = "save" /\ Submit(t)
    BY <1>3 DEF TaskOK, IsSave, handleSave
  <2> HIDE DEF t
  <2>2. QED
    BY <2>1, SubmitStep
<1>4. CASE handleFinish
  <2>1. PICK d \in documents :
          Submit([kind |-> "finish", id |-> submits, live |-> TRUE, phase |-> "getting_url",
                  doc |-> d, rest |-> documents \ {d}])
    BY <1>4 DEF handleFinish
  <2> DEFINE t == [kind |-> "finish", id |-> submits, live |-> TRUE, phase |-> "getting_url",
                   doc |-> d, rest |-> documents \ {d}]
  <2>2. Required \subseteq registered \cup {d} \cup (documents \ {d})
    BY <1>4 DEF handleFinish
  <2>3. TaskOK(t, registered) /\ t.kind = "finish"
    BY <2>2 DEF TaskOK, IsFinish
  <2>4. Submit(t)
    BY <2>1
  <2> HIDE DEF t
  <2>5. QED
    BY <2>3, <2>4, SubmitStep
<1>5. CASE handleSubmit
  <2> DEFINE t == [kind |-> "file", id |-> submits, live |-> TRUE, photos |-> evidence]
  <2>1. TaskOK(t, registered) /\ t.kind = "file" /\ Submit(t)
    BY <1>5 DEF TaskOK, IsFile, handleSubmit, IInv, EvidenceInv
  <2> HIDE DEF t
  <2>2. QED
    BY <2>1, SubmitStep
<1>6. QED
  BY <1>1, <1>2, <1>3, <1>4, <1>5

\* A step that takes a request other than an upload of evidence further, or ends it,
\* possibly leaving the step of the form.
LEMMA RequestEnds ==
  ASSUME IInv, NEW ts,
         \A t \in ts : t \in tasks \/ (TaskOK(t, registered') /\ t.kind # "evidence"),
         tasks' = ts \/ tasks' = Orphaned(ts), registered \subseteq registered',
         files' = files \/ files' = NoFiles,
         UNCHANGED <<upload, evidence, overlapped>>,
         photos' \in 0..MaxPhotos, Outcomes'
  PROVE  IInv'
<1>1. \A t \in ts : TaskOK(t, registered')
  BY MoreRegistered DEF IInv, Requests
<1>2. Evidences(ts) \subseteq Evidences(tasks)
  BY DEF Evidences
<1>3. Requests' /\ EvidenceInv'
  BY <1>1, <1>2, RequestsStep DEF IInv
<1>4. FilesInv'
  BY FilesLeft, WizardConstants DEF IInv
<1>5. QED
  BY <1>3, <1>4 DEF IInv

\* The steps of the creation of a job.
LEMMA CreationStep ==
  ASSUME IInv, NEW t \in tasks, Created(t) \/ CreateRefused(t) \/ Matched(t) \/ Left(t)
  PROVE  IInv'
<1> USE DEF posting, onboarding, dispute, counters
<1>1. TaskOK(t, registered) /\ photos \in 0..MaxPhotos /\ Outcomes
  BY DEF IInv, Requests
<1>2. IsCreate(t)
  BY <1>1 DEF Created, CreateRefused, Matched, Left, TaskOK, IsSave, IsFinish, IsEvidence, IsFile
<1>3. ASSUME NEW ph, tasks' = (tasks \ {t}) \cup {[t EXCEPT !.phase = ph]}, Outcomes',
             UNCHANGED <<upload, evidence, overlapped, files, registered, photos>>
      PROVE  IInv'
  <2> DEFINE u == [t EXCEPT !.phase = ph]
  <2>1. TaskOK(u, registered') /\ u.kind # "evidence"
    BY <1>2, <1>3 DEF IsCreate, TaskOK
  <2>2. tasks' = (tasks \ {t}) \cup {u}
    BY <1>3
  <2> HIDE DEF u
  <2>3. QED
    BY <1>1, <1>3, <2>1, <2>2, RequestEnds
<1>4. CASE Created(t)
  <2>1. UNCHANGED <<upload, evidence, overlapped, files, registered, photos>>
    BY <1>4 DEF Created
  <2>2. Outcomes'
    <3>1. created' = created \cup {t.job} /\ UNCHANGED <<completed, skipped, saved, registered, filed>>
      BY <1>4 DEF Created
    <3>2. QED
      BY <1>1, <1>2, <3>1 DEF Outcomes, CompletedSaved, IsCreate
  <2>3. CASE tasks' = tasks \ {t}
    BY <1>1, <2>1, <2>2, <2>3, RequestEnds
  <2>4. ASSUME NEW ph, tasks' = (tasks \ {t}) \cup {[t EXCEPT !.phase = ph]}
        PROVE  IInv'
    BY <1>3, <2>1, <2>2, <2>4
  <2>5. QED
    BY <1>4, <2>3, <2>4 DEF Created
<1>5. CASE Matched(t)
  <2>1. /\ tasks' = (tasks \ {t}) \cup {[t EXCEPT !.phase = "leaving"]}
        /\ UNCHANGED <<upload, evidence, overlapped, files, registered, photos>>
    BY <1>5 DEF Matched
  <2>2. Outcomes'
    BY <1>1, <1>5, OutcomesKept DEF Matched
  <2>3. QED
    BY <1>3, <2>1, <2>2
<1>6. CASE CreateRefused(t)
  <2>1. /\ tasks' = tasks \ {t}
        /\ UNCHANGED <<upload, evidence, overlapped, files, registered, photos>>
    BY <1>6 DEF CreateRefused
  <2>2. Outcomes'
    BY <1>1, <1>6, OutcomesKept DEF CreateRefused
  <2>3. QED
    BY <1>1, <2>1, <2>2, RequestEnds
<1>7. CASE Left(t)
  <2> DEFINE ts == {u \in tasks \ {t} : u.phase = "creating"}
  <2>1. /\ tasks' = ts /\ photos' = 0
        /\ UNCHANGED <<upload, evidence, overlapped, files, registered>>
    BY <1>7 DEF Left
  <2>2. Outcomes'
    BY <1>1, <1>7, OutcomesKept DEF Left
  <2>3. photos' \in 0..MaxPhotos /\ \A u \in ts : u \in tasks
    BY <2>1, WizardConstants DEF WizardConstants
  <2> HIDE DEF ts
  <2>4. QED
    BY <2>1, <2>2, <2>3, RequestEnds
<1>8. QED
  BY <1>4, <1>5, <1>6, <1>7

\* What goNext does to the requests and the thumbnails.
LEMMA AdvanceDoes ==
  ASSUME NEW st, NEW ts, Advance(st, ts)
  PROVE  /\ tasks' = ts \/ tasks' = Orphaned(ts)
         /\ files' = files \/ files' = NoFiles
         /\ completed' = completed \cup {st}
BY DEF Advance, Enter

\* A step is ticked off by the answer of its save, or by the user who skips it.
LEMMA SaveStep ==
  ASSUME IInv, Skip \/ \E t \in tasks : SaveAnswered(t) \/ SaveLost(t)
  PROVE  IInv'
<1> USE DEF posting, onboarding, dispute, counters
<1>1. photos \in 0..MaxPhotos /\ Outcomes
  BY DEF IInv
<1>2. CASE Skip
  <2>1. /\ Advance(step, tasks) /\ skipped' = skipped \cup {step}
        /\ UNCHANGED <<upload, evidence, overlapped, registered, photos, saved, created, filed>>
    BY <1>2 DEF Skip
  <2>2. Outcomes'
    BY <1>1, <2>1, AdvanceDoes DEF Outcomes, CompletedSaved
  <2>3. QED
    BY <1>1, <2>1, <2>2, AdvanceDoes, RequestEnds
<1>3. ASSUME NEW t \in tasks, SaveAnswered(t) PROVE IInv'
  <2>1. UNCHANGED <<upload, evidence, overlapped, registered, photos, skipped, created, filed>>
    BY <1>3 DEF SaveAnswered
  <2>2. t.step \in 0..4
    BY <1>3 DEF SaveAnswered, IInv, Requests, TaskOK, IsCreate, IsSave, IsFinish, IsEvidence, IsFile
  <2>3. CASE SaveEnds(t, TRUE)
    <3>1. saved' = saved \cup {t.step} /\ Advance(t.step, tasks \ {t})
      BY <2>3 DEF SaveEnds
    <3>2. Outcomes'
      BY <1>1, <2>1, <2>2, <3>1, AdvanceDoes DEF Outcomes, CompletedSaved
    <3>3. QED
      BY <1>1, <2>1, <3>1, <3>2, AdvanceDoes, RequestEnds
  <2>4. CASE SaveEnds(t, FALSE)
    <3>1. tasks' = tasks \ {t} /\ UNCHANGED <<saved, completed, files>>
      BY <2>4 DEF SaveEnds
    <3>2. Outcomes'
      BY <1>1, <2>1, <3>1, OutcomesKept
    <3>3. QED
      BY <1>1, <2>1, <3>1, <3>2, RequestEnds
  <2>5. QED
    BY <1>3, <2>3, <2>4 DEF SaveAnswered
<1>4. ASSUME NEW t \in tasks, SaveLost(t) PROVE IInv'
  <2>1. /\ tasks' = tasks \ {t} /\ saved \subseteq saved'
        /\ UNCHANGED <<upload, evidence, overlapped, files, registered, photos, created,
                       completed, skipped, filed>>
    BY <1>4 DEF SaveLost
  <2>2. Outcomes'
    BY <1>1, <2>1, OutcomesKept
  <2>3. QED
    BY <1>1, <2>1, <2>2, RequestEnds
<1>5. QED
  BY <1>2, <1>3, <1>4

\* The verification step is ticked off when the last document is registered.
LEMMA DocumentStep ==
  ASSUME IInv, NEW t \in tasks,
         Uploaded(t) \/ UploadFailed(t) \/ Registered(t) \/ RegisterFailed(t)
  PROVE  IInv'
<1> USE DEF posting, onboarding, dispute, counters
<1>1. photos \in 0..MaxPhotos /\ Outcomes
  BY DEF IInv
<1>2. IsFinish(t, registered)
  BY DEF IInv, Requests, Uploaded, UploadFailed, Registered, RegisterFailed, TaskOK, IsCreate,
         IsSave, IsEvidence, IsFile
<1>3. CASE Uploaded(t)
  <2> DEFINE u == [t EXCEPT !.phase = NextPhase[t.phase]]
  <2>1. /\ tasks' = (tasks \ {t}) \cup {u}
        /\ UNCHANGED <<upload, evidence, overlapped, files, registered, photos, created,
                       completed, skipped, saved, filed>>
    BY <1>3 DEF Uploaded
  <2>2. TaskOK(u, registered) /\ u.kind # "evidence"
    BY <1>2 DEF IsFinish, TaskOK
  <2> HIDE DEF u
  <2>3. Outcomes'
    BY <1>1, <2>1, OutcomesKept
  <2>4. QED
    BY <1>1, <2>1, <2>2, <2>3, RequestEnds
<1>4. CASE UploadFailed(t) \/ RegisterFailed(t)
  <2>1. /\ tasks' = tasks \ {t} /\ registered \subseteq registered'
        /\ UNCHANGED <<upload, evidence, overlapped, files, photos, created,
                       completed, skipped, saved, filed>>
    BY <1>4 DEF UploadFailed, RegisterFailed, StopLoop
  <2>2. Outcomes'
    BY <1>1, <2>1, OutcomesKept
  <2>3. QED
    BY <1>1, <2>1, <2>2, RequestEnds
<1>5. CASE Registered(t)
  <2>1. /\ registered' = registered \cup {t.doc} /\ Continue(t)
        /\ UNCHANGED <<upload, evidence, overlapped, photos, created, skipped, saved, filed>>
    BY <1>5 DEF Registered
  <2>2. CASE t.rest # {}
    <3>1. PICK d \in t.rest :
            tasks' = (tasks \ {t}) \cup
              {[t EXCEPT !.phase = "getting_url", !.doc = d, !.rest = t.rest \ {d}]}
      BY <2>1, <2>2 DEF Continue
    <3> DEFINE u == [t EXCEPT !.phase = "getting_url", !.doc = d, !.rest = t.rest \ {d}]
    <3>2. UNCHANGED <<completed, files>>
      BY <2>1, <2>2 DEF Continue
    <3>3. /\ u.kind = "finish" /\ u.doc = d /\ u.rest = t.rest \ {d}
          /\ {"kind", "live", "phase", "doc", "rest"} \subseteq DOMAIN u
      BY <1>2 DEF IsFinish
    <3> HIDE DEF u
    <3>4. TaskOK(u, registered') /\ u.kind # "evidence"
      BY <1>2, <2>1, <3>3 DEF IsFinish, TaskOK
    <3>5. Outcomes'
      BY <1>1, <2>1, <3>2, OutcomesKept
    <3>6. tasks' = (tasks \ {t}) \cup {u}
      BY <3>1 DEF u
    <3>7. QED
      BY <1>1, <2>1, <3>2, <3>4, <3>5, <3>6, RequestEnds
  <2>3. CASE t.rest = {} /\ wizard = "onboarding"
    <3>1. Advance(5, tasks \ {t})
      BY <2>1, <2>3 DEF Continue
    <3>2. Required \subseteq registered'
      BY <1>2, <2>1, <2>3 DEF IsFinish
    <3>3. Outcomes'
      BY <1>1, <2>1, <3>1, <3>2, AdvanceDoes DEF Outcomes, CompletedSaved
    <3>4. QED
      BY <1>1, <2>1, <3>1, <3>3, AdvanceDoes, RequestEnds
  <2>4. CASE t.rest = {} /\ wizard # "onboarding"
    <3>1. tasks' = tasks \ {t} /\ UNCHANGED <<completed, files>>
      BY <2>1, <2>4 DEF Continue
    <3>2. Outcomes'
      BY <1>1, <2>1, <3>1, OutcomesKept
    <3>3. QED
      BY <1>1, <2>1, <3>1, <3>2, RequestEnds
  <2>5. QED
    BY <2>2, <2>3, <2>4
<1>6. QED
  BY <1>3, <1>4, <1>5

\* Files of the portfolio and photos of a job.
LEMMA FileStep ==
  ASSUME IInv, \/ FileEnds \/ RemoveFile \/ RemovePhoto
               \/ (\E n \in 1..MaxFiles : handleFiles(n)) \/ (\E n \in 1..MaxPhotos : SetPhotos(n))
  PROVE  IInv'
<1> USE DEF posting, onboarding, dispute, counters
<1>1. /\ photos \in 0..MaxPhotos /\ MaxPhotos \in Nat /\ MaxFiles \in Nat
      /\ files \in [urls : Nat, done : Nat, active : Nat]
      /\ ~overlapped => files.urls + files.active <= MaxFiles
  BY WizardConstants DEF IInv, FilesInv, WizardConstants
<1>2. ASSUME UNCHANGED <<tasks, upload, evidence, created, completed, skipped, saved, registered,
                         filed>>,
             photos' \in 0..MaxPhotos, FilesInv'
      PROVE  IInv'
  BY <1>2 DEF IInv, Requests, EvidenceInv, Outcomes, CompletedSaved
<1>3. CASE RemovePhoto \/ \E n \in 1..MaxPhotos : SetPhotos(n)
  <2>1. photos' \in 0..MaxPhotos
    BY <1>1, <1>3 DEF RemovePhoto, SetPhotos
  <2>2. QED
    BY <1>1, <1>2, <1>3, <2>1 DEF RemovePhoto, SetPhotos, FilesInv
<1>4. ASSUME NEW n \in 1..MaxFiles, handleFiles(n) PROVE IInv'
  <2>1. /\ files' \in [urls : Nat, done : Nat, active : Nat]
        /\ files'.urls = files.urls /\ files'.active = files.active + n
        /\ n <= MaxFiles - (files.urls + files.done)
    BY <1>1, <1>4 DEF handleFiles
  <2>2. ~overlapped' => files.active = 0
    BY <1>1, <1>4 DEF handleFiles
  <2>3. FilesInv'
    BY <1>1, <2>1, <2>2 DEF FilesInv
  <2>4. QED
    BY <1>1, <1>2, <1>4, <2>3 DEF handleFiles
<1>5. CASE FileEnds
  <2>1. FilesInv'
    BY <1>1, <1>5 DEF FileEnds, FilesInv
  <2>2. QED
    BY <1>1, <1>2, <1>5, <2>1 DEF FileEnds
<1>6. CASE RemoveFile
  <2>1. /\ files' \in [urls : Nat, done : Nat, active : Nat]
        /\ files'.urls <= files.urls /\ files'.active = files.active
    <3>1. CASE files.urls > 0 /\ files' = [files EXCEPT !.urls = @ - 1]
      BY <1>1, <3>1
    <3>2. CASE /\ files.urls > 0 /\ files.done > 0
               /\ files' = [urls |-> files.urls - 1, done |-> files.done - 1,
                            active |-> files.active]
      BY <1>1, <3>2
    <3>3. CASE files.done > 0 /\ files' = [files EXCEPT !.done = @ - 1]
      BY <1>1, <3>3
    <3>4. QED
      BY <1>6, <3>1, <3>2, <3>3 DEF RemoveFile
  <2>2. FilesInv'
    <3>1. UNCHANGED overlapped
      BY <1>6 DEF RemoveFile
    <3>2. QED
      BY <1>1, <2>1, <3>1 DEF FilesInv
  <2>3. QED
    BY <1>1, <1>2, <1>6, <2>2 DEF RemoveFile
<1>7. QED
  BY <1>3, <1>4, <1>5, <1>6

\* One upload of evidence at a time, begun only while there is room.
LEMMA EvidenceStep ==
  ASSUME IInv, \/ handleEvidenceUpload \/ removeEvidence
               \/ \E t \in tasks : EvidenceAnswered(t) \/ EvidenceFailed(t)
  PROVE  IInv'
<1> USE DEF posting, onboarding, dispute, counters
<1>1. /\ MaxEvidence \in Nat /\ evidence \in Nat /\ evidence <= MaxEvidence
      /\ \A t \in tasks : TaskOK(t, registered)
      /\ \A t \in Evidences(tasks) :
           /\ upload \in Busy /\ evidence < MaxEvidence
           /\ \A u \in Evidences(tasks) : u = t
  BY WizardConstants DEF IInv, Requests, EvidenceInv, WizardConstants
<1>2. ASSUME UNCHANGED <<files, overlapped, photos, created, completed, skipped, saved,
                         registered, filed>>,
             Requests', EvidenceInv'
      PROVE  IInv'
  BY <1>2 DEF IInv, FilesInv, Outcomes, CompletedSaved
<1>3. CASE handleEvidenceUpload
  <2> DEFINE u == [kind |-> "evidence", id |-> inputs, live |-> TRUE, phase |-> "getting_url"]
  <2>1. TaskOK(u, registered)
    BY DEF TaskOK, IsEvidence, Busy
  <2>2. Evidences(tasks) = {} /\ evidence < MaxEvidence
    BY <1>1, <1>3 DEF handleEvidenceUpload, AddPhotoEnabled
  <2>3. tasks' = tasks \cup {u} /\ upload' = "getting_url" /\ UNCHANGED <<evidence, registered>>
    BY <1>3 DEF handleEvidenceUpload
  <2> HIDE DEF u
  <2>4. Evidences(tasks') \subseteq {u}
    BY <2>2, <2>3 DEF Evidences
  <2>5. EvidenceInv'
    BY <1>1, <2>2, <2>3, <2>4 DEF EvidenceInv, Busy
  <2>6. Requests'
    BY <1>1, <2>1, <2>3 DEF Requests
  <2>7. QED
    BY <1>2, <1>3, <2>5, <2>6 DEF handleEvidenceUpload
<1>4. CASE removeEvidence
  <2>1. EvidenceInv' /\ Requests'
    BY <1>1, <1>4 DEF removeEvidence, EvidenceInv, Requests
  <2>2. QED
    BY <1>2, <1>4, <2>1 DEF removeEvidence
<1>5. ASSUME NEW t \in tasks, EvidenceAnswered(t) \/ EvidenceFailed(t), tasks' = tasks \ {t},
             evidence' = evidence \/ evidence' = evidence + 1
      PROVE  IInv'
  <2>1. t \in Evidences(tasks) /\ UNCHANGED registered
    BY <1>5 DEF EvidenceAnswered, EvidenceFailed, Evidences
  <2>2. Evidences(tasks') = {} /\ evidence < MaxEvidence
    BY <1>1, <1>5, <2>1 DEF Evidences
  <2>3. EvidenceInv' /\ Requests'
    BY <1>1, <1>5, <2>1, <2>2 DEF EvidenceInv, Requests
  <2>4. QED
    BY <1>2, <1>5, <2>3 DEF EvidenceAnswered, EvidenceFailed
<1>6. ASSUME NEW t \in tasks, EvidenceAnswered(t), t.phase # "confirming" PROVE IInv'
  <2> DEFINE u == [t EXCEPT !.phase = NextPhase[t.phase]]
  <2>1. /\ t \in Evidences(tasks) /\ upload' = NextPhase[t.phase]
        /\ tasks' = (tasks \ {t}) \cup {u} /\ UNCHANGED <<evidence, registered>>
    BY <1>6 DEF EvidenceAnswered, Evidences
  <2>2. IsEvidence(t)
    BY <1>1, <2>1 DEF Evidences, TaskOK, IsCreate, IsSave, IsFinish, IsFile
  <2>3. NextPhase[t.phase] \in Busy
    BY <1>6, <2>2 DEF IsEvidence, Busy, NextPhase
  <2>4. TaskOK(u, registered)
    BY <2>2, <2>3 DEF IsEvidence, TaskOK
  <2> HIDE DEF u
  <2>5. Evidences(tasks') \subseteq {u} /\ evidence < MaxEvidence
    BY <1>1, <2>1 DEF Evidences
  <2>6. EvidenceInv' /\ Requests'
    BY <1>1, <2>1, <2>3, <2>4, <2>5 DEF EvidenceInv, Requests
  <2>7. QED
    BY <1>2, <1>6, <2>6 DEF EvidenceAnswered
<1>7. QED
  BY <1>3, <1>4, <1>5, <1>6 DEF EvidenceAnswered, EvidenceFailed

\* The dispute is filed with the photos it had when it was submitted.
LEMMA FiledStep ==
  ASSUME IInv, NEW t \in tasks, Filed(t) \/ FileRefused(t)
  PROVE  IInv'
<1> USE DEF posting, onboarding, dispute, counters
<1>1. /\ tasks' = tasks \ {t}
      /\ UNCHANGED <<upload, evidence, overlapped, files, registered, photos, created, completed,
                     skipped, saved>>
      /\ filed' = filed \/ filed' = filed \cup {t.photos}
  BY DEF Filed, FileRefused
<1>2. t.photos <= MaxEvidence \/ filed' = filed
  BY DEF IInv, Requests, Filed, FileRefused, TaskOK, IsCreate, IsSave, IsFinish, IsEvidence, IsFile
<1>3. Outcomes' /\ photos' \in 0..MaxPhotos
  BY <1>1, <1>2 DEF IInv, Outcomes, CompletedSaved
<1>4. QED
  BY <1>1, <1>3, RequestEnds

\* Every step keeps the requests, the limits and the outcomes good.
LEMMA FormStep == IInv /\ BehindInv /\ [Next]_vars => IInv'
<1> SUFFICES ASSUME IInv, BehindInv, [Next]_vars PROVE IInv'
  OBVIOUS
<1> USE DEF posting, onboarding, dispute, counters
<1>1. ASSUME NEW s, Move(s) PROVE IInv'
  <2>1. /\ tasks' = tasks \/ tasks' = Orphaned(tasks)
        /\ files' = files \/ files' = NoFiles
        /\ UNCHANGED <<upload, evidence, overlapped, registered, photos, created, completed,
                       skipped, saved, filed>>
    BY <1>1 DEF Move, Enter
  <2>2. Outcomes' /\ photos' \in 0..MaxPhotos
    BY <2>1, OutcomesKept DEF IInv
  <2>3. QED
    BY <2>1, <2>2, RequestEnds
<1>2. CASE goNext \/ goPrev \/ \E s \in 0..6 : Indicator(s)
  BY <1>1, <1>2 DEF goNext, goPrev, Indicator
<1>3. CASE \/ (\E f \in Fields : Edit(f)) \/ LookUp \/ (\E d \in Documents : SelectDocument(d))
           \/ \E a \in Addresses \cup {"short"} : TypeAddress(a)
  BY <1>3, Elsewhere DEF Edit, LookUp, SelectDocument, TypeAddress, wizardData
<1>4. CASE \E i \in DOMAIN lookups : Located(i) \/ NotLocated(i)
  BY <1>4, Elsewhere DEF Located, NotLocated, wizardData
<1>5. ASSUME NEW source, Ask(source) \/ \E good : Suggested(source, good) PROVE IInv'
  BY <1>5, Elsewhere DEF Ask, Suggested, wizardData
<1>6. CASE UNCHANGED vars
  BY <1>6, Elsewhere DEF vars, wizardData
<1>7. QED
  BY <1>2, <1>3, <1>4, <1>5, <1>6, UserSubmits, CreationStep, SaveStep, DocumentStep, FileStep,
     EvidenceStep, FiledStep
  DEF Next, Users, Answers

\* Next checks the fields of its step, the user edits those of the step shown, and a
\* suggestion marks what it writes; no other step touches a field, and none but those
\* that move the user touches the step.
LEMMA BehindStep == BehindInv /\ [Next]_vars => BehindInv'
<1> SUFFICES ASSUME BehindInv, [Next]_vars, wizard' \in {"posting", "dispute"}
             PROVE  BehindInv'
  BY DEF BehindInv
<1> USE DEF posting, onboarding, dispute, counters, fieldVars
<1>1. ASSUME wizard' = wizard
      PROVE  /\ step \in 0..6 /\ suggested \subseteq StepDetails
             /\ \A s \in 0..6 : s < step => StepFields[s] \ valid \subseteq suggested
             /\ StepFields' = StepFields
             /\ \A s, u \in 0..6 : s # u => StepFields[s] \cap StepFields[u] = {}
  <2>1. wizard \in {"posting", "dispute"}
    BY <1>1
  <2>2. StepFields' = StepFields
    BY <1>1 DEF StepFields
  <2>3. QED
    BY <2>1, <2>2, FieldsOfSteps DEF BehindInv
<1>2. CASE UNCHANGED <<wizard, step, fieldVars>>
  BY <1>1, <1>2 DEF BehindInv
<1>3. CASE goNext
  <2>1. /\ wizard' = wizard /\ wizard \in {"posting", "dispute"} /\ step < LastStep
        /\ StepFields[step] \subseteq valid /\ suggested' = suggested \ StepFields[step]
        /\ step' = step + 1 /\ valid' = valid
    BY <1>3 DEF goNext, Move, Enter
  <2>2. step' \in 0..6
    BY <1>1, <2>1, FieldsOfSteps
  <2>3. ASSUME NEW s \in 0..6, s < step' PROVE StepFields[s] \ valid \subseteq suggested'
    <3>1. CASE s = step
      BY <2>1, <3>1
    <3>2. CASE s < step
      <4>1. StepFields[s] \ valid \subseteq suggested /\ StepFields[s] \cap StepFields[step] = {}
        BY <1>1, <2>1, <3>2
      <4>2. QED
        BY <2>1, <4>1
    <3>3. QED
      BY <1>1, <2>1, <2>3, <3>1, <3>2
  <2>4. StepFields' = StepFields /\ suggested' \subseteq StepDetails
    BY <1>1, <2>1
  <2>5. QED
    BY <2>1, <2>2, <2>3, <2>4 DEF BehindInv
<1>4. CASE goPrev \/ \E s \in 0..6 : Indicator(s)
  <2>1. /\ wizard' = wizard /\ step' \in 0..6 /\ step' <= step
        /\ valid' = valid /\ suggested' = suggested
    <3>1. CASE goPrev
      <4>1. wizard' = wizard /\ step > 0 /\ step' = step - 1
            /\ valid' = valid /\ suggested' = suggested
        BY <3>1 DEF goPrev, Move, Enter
      <4>2. QED
        BY <1>1, <4>1
    <3>2. ASSUME NEW s \in 0..6, Indicator(s)
          PROVE  /\ wizard' = wizard /\ step' \in 0..6 /\ step' <= step
                 /\ valid' = valid /\ suggested' = suggested
      <4>1. wizard' = wizard /\ step' = s /\ valid' = valid /\ suggested' = suggested
        BY <3>2 DEF Indicator, Move, Enter
      <4>2. s < step
        BY <3>2, <4>1 DEF Indicator
      <4>3. QED
        BY <1>1, <4>1, <4>2
    <3>3. QED
      BY <1>4, <3>1, <3>2
  <2>2. \A s \in 0..6 : s < step' => s < step
    BY <1>1, <2>1
  <2>3. QED
    BY <1>1, <2>1, <2>2 DEF BehindInv
<1>5. ASSUME NEW f \in Fields, Edit(f) PROVE BehindInv'
  <2>1. /\ wizard' = wizard /\ step' = step /\ suggested' = suggested
        /\ f \in StepFields[step] /\ valid \ {f} \subseteq valid'
    BY <1>5 DEF Edit
  <2>2. ASSUME NEW s \in 0..6, s < step PROVE StepFields[s] \ valid' \subseteq suggested
    <3>1. StepFields[s] \ valid \subseteq suggested /\ f \notin StepFields[s]
      BY <1>1, <2>1, <2>2
    <3>2. QED
      BY <2>1, <3>1
  <2>3. QED
    BY <1>1, <2>1, <2>2 DEF BehindInv
<1>6. ASSUME NEW source, NEW good, Suggested(source, good) PROVE BehindInv'
  <2>1. wizard' = wizard /\ step' = step
    BY <1>6 DEF Suggested
  <2>2. /\ suggested \subseteq suggested' /\ suggested' \subseteq suggested \cup StepDetails
        /\ valid \ valid' \subseteq suggested'
    BY <1>6 DEF Suggested, StepDetails
  <2>3. \A s \in 0..6 : s < step => StepFields[s] \ valid' \subseteq suggested'
    BY <1>1, <2>1, <2>2
  <2>4. QED
    BY <1>1, <2>1, <2>2, <2>3 DEF BehindInv
<1>7. CASE handleSave \/ handleFinish \/ handleSaveDraft \/ handleSubmit
           \/ (\E match \in BOOLEAN : handlePublish(match))
  BY <1>2, <1>7 DEF handleSave, handleFinish, handleSaveDraft, handleSubmit, handlePublish,
                    Create, Submit
<1>8. CASE RemoveFile \/ RemovePhoto \/ handleEvidenceUpload \/ removeEvidence \/ FileEnds
           \/ LookUp \/ (\E n \in 1..MaxPhotos : SetPhotos(n))
           \/ (\E n \in 1..MaxFiles : handleFiles(n)) \/ (\E d \in Documents : SelectDocument(d))
           \/ (\E a \in Addresses \cup {"short"} : TypeAddress(a))
           \/ (\E source \in {"voice", "image"} : Ask(source))
           \/ (\E i \in DOMAIN lookups : Located(i) \/ NotLocated(i))
  BY <1>2, <1>8 DEF RemoveFile, RemovePhoto, handleEvidenceUpload, removeEvidence, FileEnds, LookUp,
                    SetPhotos, handleFiles, SelectDocument, TypeAddress, Ask, Located, NotLocated
<1>9. ASSUME NEW t \in tasks,
             \/ Created(t) \/ CreateRefused(t) \/ Matched(t) \/ SaveLost(t) \/ Uploaded(t)
             \/ EvidenceAnswered(t) \/ EvidenceFailed(t) \/ FileRefused(t)
             \/ UploadFailed(t) \/ RegisterFailed(t)
      PROVE  BehindInv'
  BY <1>2, <1>9 DEF Created, CreateRefused, Matched, SaveLost, Uploaded, EvidenceAnswered,
                    EvidenceFailed, FileRefused, UploadFailed, RegisterFailed, StopLoop
<1>10. ASSUME NEW t \in tasks, Filed(t) PROVE BehindInv'
  BY <1>2, <1>10 DEF Filed
<1>11. ASSUME NEW t \in tasks, Registered(t) PROVE BehindInv'
  <2>1. fieldVars' = fieldVars
    BY <1>11 DEF Registered
  <2>2. UNCHANGED <<wizard, step>>
    BY <1>11 DEF Registered, Continue, Advance
  <2>3. QED
    BY <1>2, <2>1, <2>2
<1>12. ASSUME Skip \/ \E t \in tasks : SaveAnswered(t) \/ Left(t) PROVE BehindInv'
  BY <1>2, <1>12 DEF Skip, SaveAnswered, SaveEnds, Advance, Left
<1>13. CASE UNCHANGED vars
  BY <1>2, <1>13 DEF vars
<1>14. QED
  BY <1>3, <1>4, <1>5, <1>6, <1>7, <1>8, <1>9, <1>10, <1>11, <1>12, <1>13
  DEF Next, Users, Answers

\* The forms start with nothing under way, at their first step.
LEMMA FormsInv == Spec => [](IInv /\ BehindInv)
<1>1. Init => IInv
  BY WizardConstants
  DEF WizardConstants, Init, IInv, Requests, EvidenceInv, Evidences, FilesInv, NoFiles, Outcomes,
      CompletedSaved
<1>2. Init => BehindInv
  BY DEF Init, BehindInv
<1>3. QED
  BY <1>1, <1>2, FormStep, BehindStep, PTL DEF Spec

\* However the user moves and whatever is suggested late, the steps he has passed with
\* Next stay good but for what was suggested, and so does every draft that was sent.
THEOREM StepsStayValid == Spec => []StepsBehindValid
<1>1. IInv /\ BehindInv => StepsBehindValid
  BY DEF IInv, Outcomes, GoodJob, BehindInv, StepsBehindValid
<1>2. QED
  BY <1>1, FormsInv, PTL

\* However saves, uploads and moves cross, a ticked step was saved or skipped.
THEOREM CompletedIsSaved == Spec => []CompletedSaved
<1>1. IInv => CompletedSaved
  BY DEF IInv, Outcomes
<1>2. QED
  BY <1>1, FormsInv, PTL

\* However uploads and moves cross, no form holds more files than its limit.
THEOREM UploadsAreLimited == Spec => []UploadsLimited
<1>1. IInv => UploadsLimited
  <2> SUFFICES ASSUME IInv PROVE UploadsLimited
    OBVIOUS
  <2>1. evidence <= MaxEvidence /\ \A n \in filed : n <= MaxEvidence
    BY DEF IInv, EvidenceInv, Outcomes
  <2>2. photos <= MaxPhotos
    BY WizardConstants DEF IInv, WizardConstants
  <2>3. ~overlapped => files.urls <= MaxFiles
    BY WizardConstants DEF IInv, FilesInv, WizardConstants
  <2>4. QED
    BY <2>1, <2>2, <2>3 DEF UploadsLimited
<1>2. QED
  BY <1>1, FormsInv, PTL

(***************************************************************************)
(* The address.                                                            *)
(***************************************************************************)
\* The lookup of the address in the form is the last to be sent and, if none
\* overtook another, the last to be answered.
LookupInv ==
  /\ timers \in Seq([addr : Addresses, live : BOOLEAN])
  /\ lookups \in Seq(Addresses)
  /\ HasMapbox /\ ~crossed /\ ~missed /\ address \in Addresses =>
       IF timers # <<>> THEN timers[Len(timers)].addr = address
       ELSE IF lookups # <<>> THEN lookups[Len(lookups)] = address
       ELSE coords = address

\* Leaving a step keeps its timers.
LEMMA EnterLookup ==
  ASSUME LookupInv, UNCHANGED <<lookups, crossed, missed, address, coords>>,
         UNCHANGED timers \/
           timers' = [i \in DOMAIN timers |-> [timers[i] EXCEPT !.live = FALSE]]
  PROVE  LookupInv'
<1> DEFINE T == [addr : Addresses, live : BOOLEAN]
           orphans == [i \in DOMAIN timers |-> [timers[i] EXCEPT !.live = FALSE]]
<1>1. CASE UNCHANGED timers
  BY <1>1 DEF LookupInv
<1>2. CASE timers' = orphans
  <2>1. timers \in Seq(T)
    BY DEF LookupInv
  <2>2. /\ Len(timers) \in Nat /\ DOMAIN timers = 1 .. Len(timers)
        /\ \A i \in 1 .. Len(timers) : timers[i] \in T
    <3> HIDE DEF T
    <3>1. QED
      BY <2>1
  <2>3. \A i \in 1 .. Len(timers) : orphans[i] \in T /\ orphans[i].addr = timers[i].addr
    BY <2>2
  <2>4. orphans \in [1 .. Len(timers) -> T]
    BY <2>2, <2>3
  <2> HIDE DEF orphans
  <2>5. orphans \in Seq(T) /\ Len(orphans) = Len(timers)
    <3> HIDE DEF T
    <3>1. QED
      BY <2>2, <2>4
  <2>6. QED
    BY <1>2, <2>2, <2>3, <2>5 DEF LookupInv
<1>3. QED
  BY <1>1, <1>2

\* The ends of a queue.
LEMMA QueueEnds ==
  ASSUME NEW S, NEW q \in Seq(S), NEW x \in S
  PROVE  /\ Append(q, x) \in Seq(S) /\ Append(q, x) # <<>>
         /\ Append(q, x)[Len(Append(q, x))] = x
         /\ Len(q) \in Nat /\ DOMAIN q = 1 .. Len(q) /\ \A i \in 1 .. Len(q) : q[i] \in S
         /\ q # <<>> => /\ Len(q) > 0 /\ Head(q) = q[1] /\ Tail(q) \in Seq(S)
                       /\ Len(Tail(q)) = Len(q) - 1
                       /\ (Len(q) > 1 => Tail(q)[Len(q) - 1] = q[Len(q)])
<1>1. /\ Append(q, x) \in Seq(S) /\ Append(q, x) # <<>>
      /\ Len(q) \in Nat /\ DOMAIN q = 1 .. Len(q) /\ \A i \in 1 .. Len(q) : q[i] \in S
  OBVIOUS
<1>2. Append(q, x)[Len(Append(q, x))] = x
  OBVIOUS
<1>3. ASSUME q # <<>>
      PROVE  /\ Len(q) > 0 /\ Head(q) = q[1] /\ Tail(q) \in Seq(S)
             /\ Len(Tail(q)) = Len(q) - 1
  BY <1>3
<1>4. ASSUME q # <<>>, Len(q) > 1
      PROVE  Tail(q)[Len(q) - 1] = q[Len(q)]
  BY <1>4
<1>5. QED
  BY <1>1, <1>2, <1>3, <1>4

\* An answer taken out of the middle leaves the order of the others.
LEMMA WithoutOne ==
  ASSUME NEW S, NEW q \in Seq(S), NEW i \in DOMAIN q
  PROVE  /\ Without(q, i) \in Seq(S) /\ Len(Without(q, i)) = Len(q) - 1
         /\ i < Len(q) => Without(q, i)[Len(q) - 1] = q[Len(q)]
<1>1. Len(q) \in Nat /\ i \in 1 .. Len(q) /\ \A j \in 1 .. Len(q) : q[j] \in S
  OBVIOUS
<1>2. Without(q, i) \in [1 .. (Len(q) - 1) -> S]
  BY <1>1 DEF Without
<1>3. Without(q, i) \in Seq(S) /\ Len(Without(q, i)) = Len(q) - 1
  BY <1>1, <1>2
<1>4. i < Len(q) => Without(q, i)[Len(q) - 1] = q[Len(q)]
  BY <1>1 DEF Without
<1>5. QED
  BY <1>3, <1>4

\* One step per action that touches the address, a timer or a lookup.
LEMMA LookupStep == LookupInv /\ [Next]_vars => LookupInv'
<1> SUFFICES ASSUME LookupInv, [Next]_vars PROVE LookupInv'
  OBVIOUS
<1> DEFINE T == [addr : Addresses, live : BOOLEAN]
<1> USE DEF posting, onboarding, dispute, counters
<1>1. timers \in Seq(T) /\ lookups \in Seq(Addresses)
  BY DEF LookupInv
<1>2. CASE goNext \/ goPrev \/ \E s \in 0..6 : Indicator(s)
  BY <1>2, EnterLookup DEF goNext, goPrev, Indicator, Move, Enter
<1>3. CASE Skip \/ \E t \in tasks : SaveAnswered(t) \/ Registered(t) \/ RegisterFailed(t)
                                     \/ UploadFailed(t)
  BY <1>3, EnterLookup DEF Skip, SaveAnswered, SaveEnds, Registered, RegisterFailed, UploadFailed,
     StopLoop, Continue, Advance, Enter
<1>4. ASSUME NEW a \in Addresses \cup {"short"}, TypeAddress(a)
      PROVE  LookupInv'
  <2>1. CASE a = "short" \/ ~HasMapbox
    BY <1>4, <2>1, WizardConstants DEF WizardConstants, TypeAddress, LookupInv
  <2>2. CASE a # "short" /\ HasMapbox
    <3> DEFINE new == [addr |-> a, live |-> TRUE]
    <3>1. Cleared \in Seq(T)
      BY <1>1 DEF Cleared
    <3>2. new \in T /\ new.addr = a
      BY <2>2
    <3> HIDE DEF new
    <3>3. /\ Append(Cleared, new) \in Seq(T) /\ Append(Cleared, new) # <<>>
          /\ Append(Cleared, new)[Len(Append(Cleared, new))] = new
      <4> HIDE DEF T
      <4>1. QED
        BY <3>1, <3>2, QueueEnds
    <3>4. timers' = Append(Cleared, new) /\ address' = a /\ UNCHANGED lookups
      BY <1>4, <2>2 DEF TypeAddress, new
    <3>5. timers' \in Seq(T) /\ timers' # <<>> /\ timers'[Len(timers')].addr = address'
      BY <3>2, <3>3, <3>4
    <3>6. QED
      BY <1>1, <3>4, <3>5 DEF LookupInv
  <2>3. QED
    BY <2>1, <2>2
<1>5. CASE LookUp
  <2> DEFINE first == timers[1]
  <2>1. /\ timers # <<>> /\ Len(timers) \in Nat /\ Len(timers) > 0 /\ first \in T
        /\ Tail(timers) \in Seq(T) /\ Head(timers) = first
        /\ Len(Tail(timers)) = Len(timers) - 1
        /\ Len(timers) > 1 => Tail(timers)[Len(timers) - 1] = timers[Len(timers)]
    <3> HIDE DEF T
    <3>1. timers # <<>>
      BY <1>5 DEF LookUp
    <3>2. Len(timers) \in Nat /\ Len(timers) > 0 /\ first \in T
      BY <1>1, <3>1
    <3>3. QED
      BY <1>1, <3>1, <3>2, QueueEnds
  <2>2. /\ Append(lookups, first.addr) \in Seq(Addresses)
        /\ Append(lookups, first.addr)[Len(Append(lookups, first.addr))] = first.addr
        /\ Append(lookups, first.addr) # <<>>
    <3>1. first.addr \in Addresses
      BY <2>1
    <3> HIDE DEF first
    <3>2. QED
      BY <1>1, <3>1, QueueEnds
  <2>3. lookups' = Append(lookups, first.addr) /\ timers' = Tail(timers)
        /\ UNCHANGED <<crossed, missed, address, coords>>
    BY <1>5, <2>1 DEF LookUp
  <2>4. CASE Len(timers) = 1
    BY <2>1, <2>2, <2>3, <2>4 DEF LookupInv
  <2>5. CASE Len(timers) > 1
    BY <2>1, <2>2, <2>3, <2>5 DEF LookupInv
  <2>6. QED
    BY <2>1, <2>4, <2>5
<1>6. ASSUME NEW i \in DOMAIN lookups, Located(i)
      PROVE  LookupInv'
  <2>1. /\ i \in 1 .. Len(lookups) /\ Len(lookups) \in Nat
        /\ lookups' = Without(lookups, i) /\ coords' = lookups[i]
        /\ UNCHANGED <<timers, address, missed>>
        /\ crossed' = IF i > 1 THEN TRUE ELSE crossed
    BY <1>1, <1>6 DEF Located, Locate
  <2>2. /\ lookups' \in Seq(Addresses) /\ Len(lookups') = Len(lookups) - 1
        /\ i < Len(lookups) => lookups'[Len(lookups')] = lookups[Len(lookups)]
    BY <1>1, <2>1, WithoutOne
  <2>3. QED
    BY <1>1, <2>1, <2>2 DEF LookupInv
<1>7. ASSUME NEW i \in DOMAIN lookups, NotLocated(i)
      PROVE  LookupInv'
  <2>1. /\ i \in 1 .. Len(lookups) /\ Len(lookups) \in Nat
        /\ lookups' = Without(lookups, i)
        /\ UNCHANGED <<timers, address, crossed, coords>>
        /\ missed' = IF i = Len(lookups) /\ timers = <<>> THEN TRUE ELSE missed
    BY <1>1, <1>7 DEF NotLocated
  <2>2. /\ lookups' \in Seq(Addresses) /\ Len(lookups') = Len(lookups) - 1
        /\ i < Len(lookups) => lookups'[Len(lookups')] = lookups[Len(lookups)]
    BY <1>1, <2>1, WithoutOne
  <2>3. QED
    BY <1>1, <2>1, <2>2 DEF LookupInv
<1>8. ASSUME NEW t \in tasks, Left(t)
      PROVE  LookupInv'
  BY <1>8, WizardConstants DEF Left, LookupInv
<1>9. CASE UNCHANGED <<timers, lookups, crossed, missed, address, coords>>
  BY <1>9, EnterLookup
<1>10. CASE handleSave \/ handleFinish \/ handleSaveDraft \/ handleSubmit
            \/ (\E match \in BOOLEAN : handlePublish(match))
  BY <1>9, <1>10 DEF handleSave, handleFinish, handleSaveDraft, handleSubmit, handlePublish,
                     Create, Submit
<1>11. CASE RemoveFile \/ RemovePhoto \/ handleEvidenceUpload \/ removeEvidence \/ FileEnds
            \/ (\E n \in 1..MaxPhotos : SetPhotos(n)) \/ (\E n \in 1..MaxFiles : handleFiles(n))
            \/ (\E d \in Documents : SelectDocument(d)) \/ (\E f \in Fields : Edit(f))
  BY <1>9, <1>11 DEF RemoveFile, RemovePhoto, handleEvidenceUpload, removeEvidence, FileEnds,
                     SetPhotos, handleFiles, SelectDocument, Edit
<1>12. ASSUME NEW source \in {"voice", "image"}, Ask(source) \/ \E good : Suggested(source, good)
       PROVE  LookupInv'
  BY <1>9, <1>12 DEF Ask, Suggested
<1>13. ASSUME NEW t \in tasks, Created(t) \/ CreateRefused(t) \/ Matched(t) \/ SaveLost(t)
              \/ Uploaded(t) \/ EvidenceAnswered(t) \/ EvidenceFailed(t) \/ Filed(t) \/ FileRefused(t)
       PROVE  LookupInv'
  BY <1>9, <1>13 DEF Created, CreateRefused, Matched, SaveLost, Uploaded, EvidenceAnswered,
                     EvidenceFailed, Filed, FileRefused
<1>14. CASE UNCHANGED vars
  BY <1>9, <1>14 DEF vars
<1>15. QED
  BY <1>2, <1>3, <1>4, <1>5, <1>6, <1>7, <1>8, <1>10, <1>11, <1>12, <1>13, <1>14
  DEF Next, Users, Answers

\* The coordinates belong to the address once every lookup is answered, whatever
\* timers and answers crossed before the address was last changed.
THEOREM AddressIsLocated == Spec => []AddressLocated
<1>1. Init => LookupInv
  BY WizardConstants DEF Init, LookupInv
<1>2. LookupInv => AddressLocated
  BY DEF LookupInv, AddressLocated
<1>3. QED
  BY <1>1, <1>2, LookupStep, PTL DEF Spec
=============================================================================
