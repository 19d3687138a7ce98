------------------------- MODULE ConversionPipeline -------------------------
(***************************************************************************)
(* One file on its way through the queues: conversion-worker's handle      *)
(* (queue/queue-consumer.service.ts, storage/, events/, and the decisions  *)
(* of ImageCompressor) and conversion-api's consumer of what the worker    *)
(* reports (events/worker-events.consumer.ts,                              *)
(* events/worker-event-processor.service.ts).                              *)
(*                                                                         *)
(* The outbox may have sent the request more than once, SQS hands each     *)
(* copy over again when its visibility ends, with a count the worker takes *)
(* as the attempt, and moves it away after MaxReceives.  A receipt that is *)
(* not the latest deletes nothing.  The client may upload another input,   *)
(* or the bucket may lose it, at any time.  Which poll loop runs is the    *)
(* subject of WorkerSlots; the sweep, after which a row accepts nothing    *)
(* more, and the rows of a batch are of ConversionLifecycle.  Bodies that  *)
(* do not parse are not produced by this system and are left out.          *)
(***************************************************************************)
EXTENDS ImageCompressor, FiniteSets

CONSTANTS
    Case,        \* an image, the mode asked for, copies of the request, what
                 \* may become of the input, and how many faults
    Message,     \* copies of the request
    MaxReceives  \* the queue's redrive limit

ASSUME PipelineAssumption ==
    /\ MaxReceives \in Nat \ {0}
    /\ Case \subseteq [image : Image, mode : STRING, copies : SUBSET Message,
                      spoils : SUBSET {"replaced", "missing"}, faults : Nat]

VARIABLES
    case,      \* what is converted; its faults are counted down
    input,     \* the object under the input key, against the verified ETag
    message,   \* each copy: where it is and how often it was received
    job,       \* the handle of each delivery: a copy and its receive count
    outputs,   \* the object under the output key of an attempt
    previews,  \* attempts with an object under their preview key
    events,    \* the events queue
    verified,  \* events of the queue whose output verifiedCompletion looked up
    row        \* conversion_files

queues == <<message, events>>
vars == <<case, input, message, job, outputs, previews, events, verified, row>>

Attempts == 1..MaxReceives
Delivery == Message \X Attempts
NoObject == [from |-> "none"]
NoJob == [at |-> "idle"]
EventAcceptingStatuses == {"QUEUED", "PROCESSING"}

Init ==
    /\ case \in Case
    /\ input = "verified"
    /\ message = [m \in Message |->
         [at |-> IF m \in case.copies THEN "visible" ELSE "deleted", receives |-> 0]]
    /\ job = [d \in Delivery |-> NoJob]
    /\ outputs = [a \in Attempts |-> NoObject]
    /\ previews = {}
    /\ events = {} /\ verified = {}
    /\ row = [status |-> "QUEUED", attempt |-> 0, output |-> 0, content |-> NoObject,
              preview |-> 0]

-----------------------------------------------------------------------------
(* parseConversionRequest: a request without a known mode asks for LOSSY.  *)
Mode == IF case.mode \in Modes THEN case.mode ELSE "LOSSY"

Goto(d, l) == job' = [job EXCEPT ![d] = [@ EXCEPT !.at = l]]

(* ReceiveMessage; the receive count is the attempt.                       *)
Receive(m) ==
    /\ message[m].at = "visible"
    /\ message' = [message EXCEPT ![m] = [at |-> "held", receives |-> @.receives + 1]]
    /\ job' = [job EXCEPT ![<<m, message[m].receives + 1>>] =
         [at |-> "start", from |-> "none", result |-> Failed("none"), preview |-> 0]]
    /\ UNCHANGED <<case, input, outputs, previews, events, verified, row>>

PublishStarted(d) ==
    /\ job[d].at = "start"
    /\ events' = events \cup {[type |-> "STARTED", attempt |-> d[2]]}
    /\ Goto(d, "input")
    /\ UNCHANGED <<case, input, message, outputs, previews, verified, row>>

(* getInput and compress, both of which only read: the object must carry   *)
(* the verified ETag, and its bytes go through the compressor.             *)
Refuse(d, code) ==
    job' = [job EXCEPT ![d] = [@ EXCEPT !.at = "failed", !.result = Failed(code)]]

Convert(d) ==
    LET result == Compress(case.image, Mode)
    IN job' = [job EXCEPT ![d] =
                [@ EXCEPT !.at = IF result.ok THEN "output" ELSE "failed",
                          !.from = input, !.result = result]]

GetInputUnmatched(d) ==
    /\ job[d].at = "input"
    /\ IF input = "missing" THEN Refuse(d, "INPUT_MISSING") ELSE Convert(d)
    /\ UNCHANGED <<case, input, message, outputs, previews, events, verified, row>>

GetInputBlamingInput(d) ==
    /\ job[d].at = "input"
    /\ \/ input # "verified" /\ Refuse(d, "INPUT_CHANGED")
       \/ case.faults > 0 /\ Refuse(d, "INPUT_MISSING")   \* a read that timed out
       \/ input = "verified" /\ Convert(d)
    /\ UNCHANGED <<case, input, message, outputs, previews, events, verified, row>>

GetInput(d) ==
    /\ job[d].at = "input"
    /\ CASE input = "missing"  -> Refuse(d, "INPUT_MISSING")
         [] input = "replaced" -> Refuse(d, "INPUT_CHANGED")
         [] input = "verified" -> Convert(d)
    /\ UNCHANGED <<case, input, message, outputs, previews, events, verified, row>>

(* putOutput, under the key of the attempt, with its checksum.             *)
Content(d) == [from |-> job[d].from, data |-> job[d].result.data]

PutOutput(d) ==
    /\ job[d].at = "output"
    /\ outputs' = [outputs EXCEPT ![d[2]] = Content(d)]
    /\ Goto(d, "preview")
    /\ UNCHANGED <<case, input, message, previews, events, verified, row>>

(* The preview is made and stored, or skipped.                             *)
PreviewKeyOf(d, kept) == d[2]

PreviewKey(d, kept) == IF kept THEN d[2] ELSE 0

PutPreview(d) ==
    /\ job[d].at = "preview"
    /\ \E kept \in BOOLEAN :
         /\ previews' = IF kept THEN previews \cup {d[2]} ELSE previews
         /\ job' = [job EXCEPT ![d] = [@ EXCEPT !.at = "result", !.preview = PreviewKey(d, kept)]]
    /\ UNCHANGED <<case, input, message, outputs, events, verified, row>>

PublishResult(d) ==
    /\ job[d].at = "result"
    /\ events' = events \cup
         {[type |-> "COMPLETED", attempt |-> d[2], output |-> d[2],
           content |-> Content(d), preview |-> job[d].preview]}
    /\ Goto(d, "delete")
    /\ UNCHANGED <<case, input, message, outputs, previews, verified, row>>

PublishFailure(d) ==
    /\ job[d].at = "failed"
    /\ events' = events \cup
         {[type |-> "FAILED", attempt |-> d[2], code |-> job[d].result.failureCode]}
    /\ Goto(d, "delete")
    /\ UNCHANGED <<case, input, message, outputs, previews, verified, row>>

(* deleteMessage                                                           *)
Latest(d) == message[d[1]] = [at |-> "held", receives |-> d[2]]

DeleteMessage(d) ==
    /\ job[d].at = "delete"
    /\ message' = IF Latest(d) THEN [message EXCEPT ![d[1]].at = "deleted"]
                  ELSE message
    /\ job' = [job EXCEPT ![d] = NoJob]
    /\ UNCHANGED <<case, input, outputs, previews, events, verified, row>>

Handle(d) ==
    \/ PublishStarted(d) \/ GetInput(d) \/ PutOutput(d)
    \/ PutPreview(d) \/ PublishResult(d) \/ PublishFailure(d) \/ DeleteMessage(d)

-----------------------------------------------------------------------------
Fault == case.faults > 0 /\ case' = [case EXCEPT !.faults = @ - 1]

(* A call of handle throws, or the process stops: nothing is taken back,   *)
(* and the message waits for its visibility to end.                        *)
Abandon(d) ==
    /\ job[d] # NoJob
    /\ Fault
    /\ job' = [job EXCEPT ![d] = NoJob]
    /\ UNCHANGED <<input, message, outputs, previews, events, verified, row>>

Reappear(m) ==
    message' = [message EXCEPT ![m] =
                  [@ EXCEPT !.at = IF message[m].receives < MaxReceives THEN "visible" ELSE "dead"]]

Attended(m) == \E d \in Delivery : d[1] = m /\ job[d] # NoJob /\ Latest(d)

VisibilityEnds(m) ==
    /\ message[m].at = "held" /\ ~Attended(m)
    /\ Reappear(m)
    /\ UNCHANGED <<case, input, job, outputs, previews, events, verified, row>>

(* The refresh fails, and is only logged, while its worker goes on.        *)
RefreshFails(m) ==
    /\ message[m].at = "held" /\ Attended(m)
    /\ Fault
    /\ Reappear(m)
    /\ UNCHANGED <<input, job, outputs, previews, events, verified, row>>

(* The upload form stays valid after admission; objects may be lost.       *)
InputChanges ==
    /\ input = "verified"
    /\ input' \in case.spoils
    /\ UNCHANGED <<case, message, job, outputs, previews, events, verified, row>>

-----------------------------------------------------------------------------
(* conversion-api: handle applies an event and deletes it.  One that does  *)
(* not pass the row's guard changes nothing and is deleted, too.           *)
AcceptsResult(e) == row.status \in EventAcceptingStatuses /\ row.attempt <= e.attempt

ApplyStarted(e) ==
    /\ e.type = "STARTED"
    /\ row' = IF row.status \in EventAcceptingStatuses /\ row.attempt < e.attempt
              THEN [row EXCEPT !.status = "PROCESSING", !.attempt = e.attempt] ELSE row

ApplyFailure(e) ==
    /\ e.type = "FAILED"
    /\ row' = IF AcceptsResult(e) THEN [row EXCEPT !.status = "FAILED"] ELSE row

ApplyCompleted(e) ==
    /\ e \in verified
    /\ row' = IF AcceptsResult(e)
              THEN [status |-> "COMPLETED", attempt |-> row.attempt, output |-> e.output,
                    content |-> e.content, preview |-> e.preview]
              ELSE row

(* verifiedCompletion, before the transaction: the keys are the attempt's, *)
(* and the object has the size and checksum reported.  Otherwise it throws *)
(* and the event comes back.                                               *)
VerifyWithPreview(e) ==
    /\ e \in events \ verified
    /\ e.type = "COMPLETED"
    /\ e.output = e.attempt /\ e.preview = e.attempt
    /\ outputs[e.output] = e.content
    /\ verified' = verified \cup {e}
    /\ UNCHANGED <<case, input, queues, job, outputs, previews, row>>

Verify(e) ==
    /\ e \in events \ verified
    /\ e.type = "COMPLETED"
    /\ e.output = e.attempt /\ e.preview \in {0, e.attempt}
    /\ outputs[e.output] = e.content
    /\ verified' = verified \cup {e}
    /\ UNCHANGED <<case, input, queues, job, outputs, previews, row>>

Apply(e) ==
    /\ e \in events
    /\ ApplyStarted(e) \/ ApplyFailure(e) \/ ApplyCompleted(e)
    /\ \/ events' = events \ {e} /\ verified' = verified \ {e}
       \/ UNCHANGED <<events, verified>>   \* not deleted: it comes back
    /\ UNCHANGED <<case, input, message, job, outputs, previews>>

Consume == \E e \in events : Verify(e) \/ Apply(e)

Next ==
    \/ \E m \in Message : Receive(m) \/ VisibilityEnds(m) \/ RefreshFails(m)
    \/ \E d \in Delivery : Handle(d) \/ Abandon(d)
    \/ Consume
    \/ InputChanges

Spec == Init /\ [][Next]_vars

(* Poll loops go on, the queue hands messages over, the api consumes.  No  *)
(* fault is required.                                                      *)
FairSpec ==
    /\ Spec
    /\ \A m \in Message : WF_vars(Receive(m)) /\ WF_vars(VisibilityEnds(m))
    /\ \A d \in Delivery : WF_vars(Handle(d))
    /\ WF_vars(Consume)

-----------------------------------------------------------------------------
TypeOK ==
    /\ input \in {"verified", "replaced", "missing"}
    /\ message \in [Message -> [at : {"visible", "held", "deleted", "dead"},
                                receives : 0..MaxReceives]]
    /\ \A d \in Delivery :
         job[d].at \in {"idle", "start", "input", "output", "preview", "result",
                        "failed", "delete"}
    /\ previews \subseteq Attempts
    /\ verified \subseteq events
    /\ row.status \in EventAcceptingStatuses \cup {"COMPLETED", "FAILED"}
    /\ row.attempt \in 0..MaxReceives /\ row.output \in 0..MaxReceives

(* What a COMPLETED file points to is in the bucket, as it was reported:   *)
(* no other attempt or copy of the request replaced it afterwards.         *)
CompletedIsStored ==
    /\ TypeOK
    /\ row.status = "COMPLETED" =>
         /\ outputs[row.output] = row.content
         /\ row.preview # 0 => row.preview \in previews

(* It was made of the input the api verified, whatever was uploaded since. *)
ResultOfVerifiedInput ==
    row.status = "COMPLETED" =>
      row.content = [from |-> "verified", data |-> Compress(case.image, Mode).data]

(* A file fails for its input only: because it cannot be converted or is   *)
(* no longer there.  Faults of the system never fail it.                   *)
FailuresAreDeserved ==
    row.status = "FAILED" => input # "verified" \/ ~Compress(case.image, Mode).ok

(* No result carries metadata of its input, but one that was asked to stay *)
(* as it is and could not be stripped without encoding it again.           *)
ResultsAreClean ==
    \A e \in events : e.type = "COMPLETED" =>
      \/ e.content.data.clean
      \/ Mode = "LOSSLESS" /\ case.image.format \in {"webp", "avif"} /\ e.content.data.own

(* Metadata that only encoding again removes: an AVIF's, that of a WebP    *)
(* which cannot be walked or cannot flag an orientation, and the block     *)
(* with the orientation itself in a WebP that was stripped before.         *)
CleanedByEncodingOnly(image) ==
    /\ CarriesMetadata(image)
    /\ \/ image.format = "avif"
       \/ /\ image.format = "webp"
          /\ ~image.sound \/ image.stripped \/ (image.turned /\ ~image.features)

(* Pixels are given up only when asked to, and only for a tenth of the     *)
(* bytes or for metadata that copying the picture would leave in place.    *)
(* (encodeLossy: a JPEG, PNG or WebP that can be stripped keeps them.)     *)
PixelsLostForAReason ==
    \A e \in events : e.type = "COMPLETED" /\ ~e.content.data.exact =>
      /\ Mode = "LOSSY"
      /\ \/ 10 * e.content.data.size <= 9 * case.image.size
         \/ CleanedByEncodingOnly(case.image)

(* Every request is answered, unless so many calls fail that the queue     *)
(* moves it away.                                                          *)
EveryRequestAnswered ==
    <>(\/ row.status \notin EventAcceptingStatuses
       \/ \E m \in Message : message[m].at = "dead")
==============================================================================
