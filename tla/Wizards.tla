------------------------------- MODULE Wizards -------------------------------
(***************************************************************************)
(* The three multi-step forms of the web front end: posting a job          *)
(* (components/forms/JobPostingForm.tsx), setting up a provider            *)
(* (provider/onboarding/page.tsx) and filing a dispute                     *)
(* (disputes/new/page.tsx).  The user opens one of them.                   *)
(*                                                                         *)
(* What makes them hard is what outlives a step: a debounced address       *)
(* lookup, a voice or image suggestion, a save, an upload.  Each was       *)
(* started by the component of one step and ends when the user may be on   *)
(* another, with the step it closed over.                                  *)
(***************************************************************************)
EXTENDS Naturals, Sequences

CONSTANTS
  Addresses,    \* service addresses long enough to be looked up
  Documents,    \* DOCUMENT_TYPES of the verification step
  Required,     \* ... the ones that must be uploaded
  MaxPhotos,    \* MAX_PHOTOS of the posting form
  MaxFiles,     \* maxFiles of the portfolio
  MaxEvidence,  \* MAX_EVIDENCE of the dispute form
  MaxInputs,    \* bound: values the user enters
  MaxSubmits,   \* bound: requests the user submits
  HasMapbox,    \* NEXT_PUBLIC_MAPBOX_TOKEN is configured
  Unset         \* no address, no coordinates

ASSUME WizardConstants ==
  /\ Required \subseteq Documents
  /\ {MaxPhotos, MaxFiles, MaxEvidence, MaxInputs, MaxSubmits} \subseteq Nat
  /\ HasMapbox \in BOOLEAN
  /\ Unset \notin Addresses
  /\ "short" \notin Addresses

VARIABLES
  wizard,     \* the form on screen; "left" once it has sent the user on
  step,       \* the step shown
  valid,      \* the fields whose value passes the schema
  overlong,   \* a suggested title is longer than the schema allows
  suggested,  \* history: fields a suggestion wrote since Next last checked them
  tasks,      \* requests in flight with what their continuation closed over
  inputs,     \* values entered so far
  submits,    \* requests submitted so far
  \* posting
  address, coords,  \* locationAddress and locationLat/Lng
  timers,     \* debounce timers in the order they were set
  lookups,    \* geocoding requests in the order they were sent
  pending,    \* suggestions being recognised: voice, image
  photos,     \* how many photos are selected
  created,    \* jobs the server has created
  crossed,    \* history: a lookup of this address overtook an older one
  missed,     \* history: the newest lookup found nothing or failed
  \* onboarding
  completed,  \* completedSteps
  saved,      \* steps whose save reached the server
  skipped,    \* history: steps the user skipped
  documents,  \* the documents selected in the mounted step
  registered, \* documents the verification endpoint has
  files,      \* the portfolio's uploads
  overlapped, \* history: files were added while others were uploading
  \* dispute
  upload,     \* status of the evidence upload
  evidence,   \* evidenceUrls.length
  filed       \* the disputes the server has: their number of photos

posting == <<address, coords, timers, lookups, pending, photos, created, crossed, missed>>
onboarding == <<completed, saved, skipped, documents, registered, files, overlapped>>
dispute == <<upload, evidence, filed>>
counters == <<inputs, submits>>
fieldVars == <<valid, overlong, suggested>>
vars == <<wizard, step, fieldVars, tasks, counters, posting, onboarding, dispute>>

\* The fields that the components of the posting form let the user fill in.
StepCategory == {"category"}
StepDetails == {"title", "description"}
StepSchedule == {"schedule"}   \* type, date and recurrence: the two refinements
StepAuction == {"bids"}        \* starting bid and accepted offer
PostingSteps == <<StepCategory, StepDetails, {}, StepSchedule, {}, StepAuction, {}>>
\* ... and the steps of the dispute form.
DisputeSteps == <<{"contract"}, {"reason"}, {"description"}, {}, {}, {}, {}>>

\* STEPS and STEP_FIELDS.
LastStep == IF wizard = "dispute" THEN 4 ELSE 6
StepFields ==
  [s \in 0..6 |-> IF wizard = "posting" THEN PostingSteps[s + 1]
                  ELSE IF wizard = "dispute" THEN DisputeSteps[s + 1] ELSE {}]
Fields == UNION {StepFields[s] : s \in 0..LastStep}

NoFiles == [urls |-> 0, done |-> 0, active |-> 0]

Init ==
  /\ wizard \in {"posting", "onboarding", "dispute"}
  /\ step = 0
  /\ valid \in IF wizard = "posting" THEN {{"schedule", "bids"}}
               ELSE IF wizard = "dispute" THEN {{}, {"contract"}}   \* ?contractId=
               ELSE {{}}
  /\ overlong = FALSE /\ suggested = {}
  /\ tasks = {} /\ inputs = 0 /\ submits = 0
  /\ address = Unset /\ coords = Unset
  /\ timers = <<>> /\ lookups = <<>>
  /\ pending = {} /\ photos = 0 /\ created = {}
  /\ crossed = FALSE /\ missed = FALSE
  /\ completed = {} /\ saved = {} /\ skipped = {}
  /\ documents = {} /\ registered = {}
  /\ files = NoFiles /\ overlapped = FALSE
  /\ upload = "idle" /\ evidence = 0 /\ filed = {}

(***************************************************************************)
(* Moving between the steps.  The component of a step unmounts when the    *)
(* step is left: what it has selected is lost, what it started goes on.    *)
(***************************************************************************)
Entered == inputs < MaxInputs /\ inputs' = inputs + 1
Orphaned(ts) == {[t EXCEPT !.live = FALSE] : t \in ts}

Enter(s, ts) ==
  /\ step' = s
  /\ IF s = step
     THEN tasks' = ts /\ UNCHANGED <<timers, documents, files>>
     ELSE /\ tasks' = Orphaned(ts)
          /\ timers' = [i \in DOMAIN timers |-> [timers[i] EXCEPT !.live = FALSE]]
          /\ documents' = {}
          /\ files' = NoFiles

Move(s) ==
  /\ Enter(s, tasks)
  /\ UNCHANGED <<wizard, valid, overlong, counters, address, coords, lookups, pending, photos,
                 created, crossed, missed, completed, saved, skipped, registered, overlapped,
                 dispute>>

\* The verification step is submitting.
Submitting == \E t \in tasks : t.kind = "finish" /\ t.live

goNext ==
  /\ wizard \in {"posting", "dispute"}
  /\ step < LastStep
  /\ StepFields[step] \subseteq valid     \* form.trigger(fields)
  /\ suggested' = suggested \ StepFields[step]
  /\ Move(step + 1)

goPrev ==
  /\ wizard # "left" /\ step > 0 /\ ~Submitting
  /\ Move(step - 1) /\ UNCHANGED suggested

\* Mutant: the indicators of the steps ahead are not disabled.
MutIndicator(s) ==
  /\ wizard # "left" /\ s # step
  /\ Move(s) /\ UNCHANGED suggested

\* The step indicators: back only, except when onboarding.
Indicator(s) ==
  /\ wizard # "left"
  /\ s < step \/ (wizard = "onboarding" /\ s > step)
  /\ Move(s) /\ UNCHANGED suggested

\* The user changes a field of the step shown from good to bad or back.
Edit(f) ==
  /\ f \in StepFields[step] /\ wizard # "left"
  /\ Entered
  /\ valid' = IF f \in valid THEN valid \ {f} ELSE valid \cup {f}
  /\ overlong' = (overlong /\ f # "title")     \* the field is limited to 200
  /\ UNCHANGED <<wizard, step, suggested, tasks, submits, posting, onboarding, dispute>>

(***************************************************************************)
(* Posting: suggestions for title and description.                         *)
(***************************************************************************)
\* startVoiceInput, and handleFileChange of ImageAnalysisButton.
Ask(source) ==
  /\ wizard = "posting" /\ step = 1 /\ source \notin pending
  /\ Entered
  /\ pending' = pending \cup {source}
  /\ UNCHANGED <<wizard, step, fieldVars, tasks, submits, address, coords, timers, lookups, photos,
                 created, crossed, missed, onboarding, dispute>>

\* The suggestion, whatever its length, is written into the form wherever the
\* user is; an image may also name a known category.  None may come at all.
Suggested(source, good) ==
  /\ source \in pending
  /\ pending' = pending \ {source}
  /\ \/ UNCHANGED fieldVars
     \/ /\ source = "voice" /\ good \subseteq {"title"}
        /\ valid' = (valid \ {"title"}) \cup good
        /\ overlong' = FALSE             \* cut to 60 characters
        /\ suggested' = suggested \cup {"title"}
     \/ /\ source = "image"
        /\ valid' = (valid \ StepDetails) \cup good
        /\ overlong' \in IF "title" \in good THEN {FALSE} ELSE BOOLEAN
        /\ suggested' = suggested \cup StepDetails
  /\ UNCHANGED <<wizard, step, tasks, counters, address, coords, timers, lookups, photos,
                 created, crossed, missed, onboarding, dispute>>

(***************************************************************************)
(* Posting: the address and its coordinates.                               *)
(***************************************************************************)
\* clearTimeout(debounceRef.current): of the timers only the one set last can be of
\* this visit of the step; one that an earlier visit set is not this one's to clear.
Cleared ==
  IF timers # <<>> /\ timers[Len(timers)].live
  THEN SubSeq(timers, 1, Len(timers) - 1) ELSE timers

\* geocodeAddress returns before the timer is cleared when the address is short or
\* no Mapbox token is configured.
TypeAddress(a) ==
  /\ wizard = "posting" /\ step = 2 /\ a # address
  /\ Entered
  /\ address' = a
  /\ IF a = "short" \/ ~HasMapbox
     THEN UNCHANGED <<timers, crossed, missed>>
     ELSE /\ timers' = Append(Cleared, [addr |-> a, live |-> TRUE])
          /\ crossed' = FALSE /\ missed' = FALSE
  /\ UNCHANGED <<wizard, step, fieldVars, tasks, submits, coords, lookups, pending, photos, created,
                 onboarding, dispute>>

\* Timers of equal delay fire in the order in which they were set.
LookUp ==
  /\ timers # <<>>
  /\ lookups' = Append(lookups, Head(timers).addr)
  /\ timers' = Tail(timers)
  /\ UNCHANGED <<wizard, step, fieldVars, tasks, counters, address, coords, pending, photos,
                 created, crossed, missed, onboarding, dispute>>

\* Mutant: coordinates are only filled in when there are none yet.
MutLocate(a) == coords' = IF coords = Unset THEN a ELSE coords

Locate(a) == coords' = a

Without(q, i) == [j \in 1..(Len(q) - 1) |-> IF j < i THEN q[j] ELSE q[j + 1]]

\* The answers come in any order and each is written when it comes.
Located(i) ==
  /\ i \in DOMAIN lookups
  /\ Locate(lookups[i])
  /\ lookups' = Without(lookups, i)
  /\ crossed' = IF i > 1 THEN TRUE ELSE crossed
  /\ UNCHANGED <<wizard, step, fieldVars, tasks, counters, address, timers, pending, photos,
                 created, missed, onboarding, dispute>>

\* Nothing found, or the request failed: the coordinates stay.
NotLocated(i) ==
  /\ i \in DOMAIN lookups
  /\ lookups' = Without(lookups, i)
  /\ missed' = IF i = Len(lookups) /\ timers = <<>> THEN TRUE ELSE missed
  /\ UNCHANGED <<wizard, step, fieldVars, tasks, counters, address, coords, timers, pending, photos,
                 created, crossed, onboarding, dispute>>

(***************************************************************************)
(* Posting: photos, publishing and drafts.                                 *)
(***************************************************************************)
\* addFiles and removePhoto.
SetPhotos(n) ==
  /\ wizard = "posting" /\ step = 4
  /\ Entered
  /\ photos' = IF photos + n > MaxPhotos THEN MaxPhotos ELSE photos + n
  /\ UNCHANGED <<wizard, step, fieldVars, tasks, submits, address, coords, timers, lookups, pending,
                 created, crossed, missed, onboarding, dispute>>
RemovePhoto ==
  /\ wizard = "posting" /\ step = 4 /\ photos > 0
  /\ Entered
  /\ photos' = photos - 1
  /\ UNCHANGED <<wizard, step, fieldVars, tasks, submits, address, coords, timers, lookups, pending,
                 created, crossed, missed, onboarding, dispute>>

\* buildCreateInput: of the values sent, which of them pass the schema.  No photo is
\* ever among them, for none is uploaded: photoUrls stays empty.
Job(publish) == [publish |-> publish, valid |-> valid]
Creating == \E t \in tasks : t.kind = "create" /\ t.phase = "creating"

Submit(t) ==
  /\ submits < MaxSubmits /\ submits' = submits + 1
  /\ tasks' = tasks \cup {t}
  /\ UNCHANGED <<wizard, step, fieldVars, inputs, posting, onboarding, dispute>>

Create(job, match) ==
  Submit([kind |-> "create", id |-> submits, live |-> TRUE, phase |-> "creating",
          job |-> job, match |-> match])

handlePublish(match) ==
  /\ wizard = "posting" /\ step = LastStep /\ ~Creating
  /\ Fields \subseteq valid               \* form.trigger()
  /\ Create(Job(TRUE), match)

\* Not the schema: a category and a title of 10 characters, however long.
handleSaveDraft ==
  /\ wizard = "posting" /\ step = LastStep /\ ~Creating
  /\ "category" \in valid /\ ("title" \in valid \/ overlong)
  /\ Create(Job(FALSE), FALSE)

\* The job exists; the instant match is requested, its failure swallowed, and
\* only then does router.push leave: until then the form stays usable.
Created(t) ==
  /\ t.kind = "create" /\ t.phase = "creating"
  /\ created' = created \cup {t.job}
  /\ \/ tasks' = (tasks \ {t}) \cup
          {[t EXCEPT !.phase = IF t.match THEN "matching" ELSE "leaving"]}
     \/ tasks' = tasks \ {t}              \* the answer is lost: an error is shown
  /\ UNCHANGED <<wizard, step, fieldVars, counters, address, coords, timers, lookups, pending,
                 photos, crossed, missed, onboarding, dispute>>
CreateRefused(t) ==
  /\ t.kind = "create" /\ t.phase = "creating"
  /\ tasks' = tasks \ {t}
  /\ UNCHANGED <<wizard, step, fieldVars, counters, posting, onboarding, dispute>>
Matched(t) ==
  /\ t.kind = "create" /\ t.phase = "matching"
  /\ tasks' = (tasks \ {t}) \cup {[t EXCEPT !.phase = "leaving"]}
  /\ UNCHANGED <<wizard, step, fieldVars, counters, posting, onboarding, dispute>>
\* What still runs then writes into a form nobody sees, except another creation.
Left(t) ==
  /\ t.kind = "create" /\ t.phase = "leaving"
  /\ tasks' = {u \in tasks \ {t} : u.phase = "creating"}
  /\ wizard' = "left"
  /\ timers' = <<>> /\ lookups' = <<>> /\ pending' = {}
  /\ address' = Unset /\ coords' = Unset /\ photos' = 0
  /\ UNCHANGED <<step, fieldVars, counters, created, crossed, missed, onboarding, dispute>>

(***************************************************************************)
(* Onboarding: every step saves and calls the goNext it was rendered with, *)
(* which marks that step completed and moves to the one after it.          *)
(***************************************************************************)
Advance(s, ts) ==
  /\ completed' = completed \cup {s}
  /\ IF s < LastStep
     THEN Enter(s + 1, ts) /\ UNCHANGED wizard
     ELSE wizard' = "left" /\ tasks' = ts /\ UNCHANGED <<step, timers, documents, files>>

Saving == \E t \in tasks : t.kind = "save" /\ t.live

\* onSubmit and handleSave of the first five steps.
handleSave ==
  /\ wizard = "onboarding" /\ step \in 0..4 /\ ~Saving
  /\ step = 4 => files.urls > 0
  /\ Submit([kind |-> "save", id |-> submits, live |-> TRUE, step |-> step])

SaveEnds(t, reached) ==
  IF reached
  THEN saved' = saved \cup {t.step} /\ Advance(t.step, tasks \ {t})
  ELSE /\ tasks' = tasks \ {t}
       /\ UNCHANGED <<wizard, step, saved, completed, timers, documents, files>>

SaveAnswered(t) ==
  /\ t.kind = "save" /\ wizard = "onboarding"
  /\ \E reached \in BOOLEAN : SaveEnds(t, reached)
  /\ UNCHANGED <<fieldVars, counters, address, coords, lookups, pending, photos, created, crossed,
                 missed, skipped, registered, overlapped, dispute>>
\* The save reached the server and its answer was lost.
SaveLost(t) ==
  /\ t.kind = "save"
  /\ saved' = saved \cup {t.step}
  /\ tasks' = tasks \ {t}
  /\ UNCHANGED <<wizard, step, fieldVars, counters, posting, completed, skipped, documents,
                 registered, files, overlapped, dispute>>

\* Skip; Next with nothing selected (categories, portfolio); "Finish setup".
Skip ==
  /\ wizard = "onboarding"
  /\ step \in 1..6
  /\ step = 5 => ~(Required \subseteq documents) /\ ~Submitting
  /\ submits < MaxSubmits /\ submits' = submits + 1
  /\ skipped' = skipped \cup {step}
  /\ Advance(step, tasks)
  /\ UNCHANGED <<fieldVars, inputs, address, coords, lookups, pending, photos, created, crossed,
                 missed, saved, registered, overlapped, dispute>>

\* ImageUpload in the portfolio step: the limit counts every finished file twice,
\* as one of existingImages and as a completed upload, and no running one.
handleFiles(n) ==
  /\ wizard = "onboarding" /\ step = 4
  /\ n <= MaxFiles - (files.urls + files.done)
  /\ Entered
  /\ files' = [files EXCEPT !.active = @ + n]
  /\ overlapped' = IF files.active > 0 THEN TRUE ELSE overlapped
  /\ UNCHANGED <<wizard, step, fieldVars, tasks, submits, posting, completed, saved, skipped,
                 documents, registered, dispute>>
\* processFile: an upload ends.
FileEnds ==
  /\ files.active > 0
  /\ \/ files' = [urls |-> files.urls + 1, done |-> files.done + 1, active |-> files.active - 1]
     \/ files' = [files EXCEPT !.active = @ - 1]
  /\ UNCHANGED <<wizard, step, fieldVars, tasks, counters, posting, completed, saved, skipped,
                 documents, registered, overlapped, dispute>>
\* The thumbnail of an existing image, or the one of an upload of this mount.
RemoveFile ==
  /\ files.done > 0
  /\ Entered
  /\ \/ files.urls > 0 /\ files' = [files EXCEPT !.urls = @ - 1]
     \/ /\ files.urls > 0
        /\ files' = [urls |-> files.urls - 1, done |-> files.done - 1, active |-> files.active]
     \/ files.urls < files.done /\ files' = [files EXCEPT !.done = @ - 1]
  /\ UNCHANGED <<wizard, step, fieldVars, tasks, submits, posting, completed, saved, skipped,
                 documents, registered, overlapped, dispute>>

(***************************************************************************)
(* Onboarding: the verification documents.                                 *)
(***************************************************************************)
\* handleFileSelect of a good file, and handleRemove.
SelectDocument(d) ==
  /\ wizard = "onboarding" /\ step = 5
  /\ Entered
  /\ documents' = IF d \in documents THEN documents \ {d} ELSE documents \cup {d}
  /\ UNCHANGED <<wizard, step, fieldVars, tasks, submits, posting, completed, saved, skipped,
                 registered, files, overlapped, dispute>>

\* handleFinish takes the documents as they are now and sends one after another.
handleFinish ==
  /\ wizard = "onboarding" /\ step = 5 /\ ~Submitting
  /\ Required \subseteq documents
  /\ \E d \in documents :
       Submit([kind |-> "finish", id |-> submits, live |-> TRUE, phase |-> "getting_url",
               doc |-> d, rest |-> documents \ {d}])

NextPhase == [getting_url |-> "uploading", uploading |-> "confirming",
              confirming |-> "registering"]

\* One request of useImageUpload is answered.
Uploaded(t) ==
  /\ t.kind = "finish" /\ t.phase \in DOMAIN NextPhase
  /\ tasks' = (tasks \ {t}) \cup {[t EXCEPT !.phase = NextPhase[t.phase]]}
  /\ UNCHANGED <<wizard, step, fieldVars, counters, posting, onboarding, dispute>>

\* The loop goes on with the next document, or ends with onNext.
Continue(t) ==
  IF t.rest # {}
  THEN /\ \E d \in t.rest :
            tasks' = (tasks \ {t}) \cup
              {[t EXCEPT !.phase = "getting_url", !.doc = d, !.rest = @ \ {d}]}
       /\ UNCHANGED <<wizard, step, completed, timers, documents, files>>
  ELSE IF wizard = "onboarding"
       THEN Advance(5, tasks \ {t})
       ELSE tasks' = tasks \ {t} /\ UNCHANGED <<wizard, step, completed, timers, documents, files>>

\* Mutant: a failed upload is skipped and the loop goes on.
MutStopLoop(t) == Continue(t)

\* A failed upload or registration stops the loop; the selection stays, and a
\* retry sends the documents already registered again.
StopLoop(t) ==
  /\ tasks' = tasks \ {t}
  /\ UNCHANGED <<wizard, step, completed, timers, documents, files>>

UploadFailed(t) ==
  /\ t.kind = "finish" /\ t.phase \in DOMAIN NextPhase
  /\ StopLoop(t)
  /\ UNCHANGED <<fieldVars, counters, address, coords, lookups, pending, photos, created, crossed,
                 missed, saved, skipped, registered, overlapped, dispute>>
Registered(t) ==
  /\ t.kind = "finish" /\ t.phase = "registering"
  /\ registered' = registered \cup {t.doc}
  /\ Continue(t)
  /\ UNCHANGED <<fieldVars, counters, address, coords, lookups, pending, photos, created, crossed,
                 missed, saved, skipped, overlapped, dispute>>
\* Refused, or accepted with the answer lost.
RegisterFailed(t) ==
  /\ t.kind = "finish" /\ t.phase = "registering"
  /\ registered' \in {registered, registered \cup {t.doc}}
  /\ StopLoop(t)
  /\ UNCHANGED <<fieldVars, counters, address, coords, lookups, pending, photos, created, crossed,
                 missed, saved, skipped, overlapped, dispute>>

(***************************************************************************)
(* Dispute: evidence and filing.                                           *)
(***************************************************************************)
Busy == {"getting_url", "uploading", "confirming"}

\* Mutant: the button is disabled only while the bytes are sent.
MutAddPhotoEnabled == evidence < MaxEvidence /\ upload # "uploading"

AddPhotoEnabled == evidence < MaxEvidence /\ upload \notin Busy

\* handleEvidenceUpload: useImageUpload starts.
handleEvidenceUpload ==
  /\ wizard = "dispute" /\ step = 3 /\ AddPhotoEnabled
  /\ Entered
  /\ upload' = "getting_url"
  /\ tasks' = tasks \cup {[kind |-> "evidence", id |-> inputs, live |-> TRUE,
                           phase |-> "getting_url"]}
  /\ UNCHANGED <<wizard, step, fieldVars, submits, posting, onboarding, evidence, filed>>

\* The upload goes on wherever the user is in the form; onSuccess adds the photo.
EvidenceAnswered(t) ==
  /\ t.kind = "evidence"
  /\ IF t.phase = "confirming"
     THEN upload' = "complete" /\ evidence' = evidence + 1 /\ tasks' = tasks \ {t}
     ELSE /\ upload' = NextPhase[t.phase] /\ UNCHANGED evidence
          /\ tasks' = (tasks \ {t}) \cup {[t EXCEPT !.phase = NextPhase[t.phase]]}
  /\ UNCHANGED <<wizard, step, fieldVars, counters, posting, onboarding, filed>>
EvidenceFailed(t) ==
  /\ t.kind = "evidence"
  /\ upload' = "error" /\ tasks' = tasks \ {t}
  /\ UNCHANGED <<wizard, step, fieldVars, counters, posting, onboarding, evidence, filed>>
removeEvidence ==
  /\ wizard = "dispute" /\ step = 3 /\ evidence > 0
  /\ Entered
  /\ evidence' = evidence - 1
  /\ UNCHANGED <<wizard, step, fieldVars, tasks, submits, posting, onboarding, upload, filed>>

handleSubmit ==
  /\ wizard = "dispute" /\ step = LastStep
  /\ ~\E t \in tasks : t.kind = "file"
  /\ Fields \subseteq valid
  /\ Submit([kind |-> "file", id |-> submits, live |-> TRUE, photos |-> evidence])
\* The dispute is filed; its answer shows the receipt, or is lost.
Filed(t) ==
  /\ t.kind = "file"
  /\ filed' = filed \cup {t.photos}
  /\ wizard' \in {"left", wizard}
  /\ tasks' = tasks \ {t}
  /\ UNCHANGED <<step, fieldVars, counters, posting, onboarding, upload, evidence>>
FileRefused(t) ==
  /\ t.kind = "file"
  /\ tasks' = tasks \ {t}
  /\ UNCHANGED <<wizard, step, fieldVars, counters, posting, onboarding, dispute>>

Users ==
  \/ goNext \/ goPrev \/ handleSave \/ Skip \/ handleFinish \/ handleSaveDraft \/ handleSubmit
  \/ RemoveFile \/ RemovePhoto \/ handleEvidenceUpload \/ removeEvidence
  \/ \E s \in 0..6 : Indicator(s)
  \/ \E f \in Fields : Edit(f)
  \/ \E source \in {"voice", "image"} : Ask(source)
  \/ \E a \in Addresses \cup {"short"} : TypeAddress(a)
  \/ \E n \in 1..MaxPhotos : SetPhotos(n)
  \/ \E n \in 1..MaxFiles : handleFiles(n)
  \/ \E d \in Documents : SelectDocument(d)
  \/ \E match \in BOOLEAN : handlePublish(match)

Answers ==
  \/ LookUp \/ FileEnds
  \/ \E source \in {"voice", "image"}, good \in SUBSET {"category", "title", "description"} :
       Suggested(source, good)
  \/ \E i \in DOMAIN lookups : Located(i) \/ NotLocated(i)
  \/ \E t \in tasks : \/ Created(t) \/ CreateRefused(t) \/ Matched(t) \/ Left(t)
                      \/ SaveAnswered(t) \/ SaveLost(t)
                      \/ Uploaded(t) \/ UploadFailed(t) \/ Registered(t) \/ RegisterFailed(t)
                      \/ EvidenceAnswered(t) \/ EvidenceFailed(t) \/ Filed(t) \/ FileRefused(t)

Next == Users \/ Answers

Spec == Init /\ [][Next]_vars

(***************************************************************************)
(* Properties.                                                             *)
(***************************************************************************)
PostingFields == StepCategory \cup StepDetails \cup StepSchedule \cup StepAuction

\* What the user has passed with Next stays good however he moves back and forth and
\* whatever answers late, except a title or description that a voice or image
\* suggestion has written since.  So a draft, which handleSaveDraft does not put to
\* the schema, fails it nowhere else.
StepsBehindValid ==
  /\ wizard \in {"posting", "dispute"}
       => \A s \in 0..6 : s < step => StepFields[s] \ valid \subseteq suggested
  /\ \A job \in created : job.publish \/ PostingFields \ job.valid \subseteq StepDetails

\* Once every lookup has been answered the coordinates are those of the address
\* in the form, unless the address is too short to be looked up, its lookup found
\* nothing, or it was answered before an older one.  Without a Mapbox token nothing
\* is looked up, which the form says.
AddressLocated ==
  (HasMapbox /\ timers = <<>> /\ lookups = <<>> /\ ~crossed /\ ~missed /\ address \in Addresses)
    => coords = address

\* A step ticked off was saved at the server or skipped by the user: the
\* verification step is ticked only with every required document registered.
CompletedSaved ==
  \A s \in completed :
    s \in skipped \/ IF s = 5 THEN Required \subseteq registered ELSE s \in saved

\* No form holds more files than its limit, counting an upload that ends after
\* the user has moved on; the portfolio only if no two batches overlapped.
UploadsLimited ==
  /\ evidence <= MaxEvidence
  /\ \A n \in filed : n <= MaxEvidence
  /\ photos <= MaxPhotos
  /\ ~overlapped => files.urls <= MaxFiles
=============================================================================
