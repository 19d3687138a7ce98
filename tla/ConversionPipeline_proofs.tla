----------------------- MODULE ConversionPipeline_proofs -----------------------
(***************************************************************************)
(* For any number of copies and receives and for every image: what a       *)
(* finished file points to is stored, made of the verified input and free  *)
(* of its metadata, and a file fails for its input only.                   *)
(*                                                                         *)
(* The invariant says of every job, event and object that it is of the     *)
(* verified input, or excused by the input's loss.  As all attempts of a   *)
(* file make the same bytes, a copy that writes an object again does not   *)
(* change it.                                                              *)
(*                                                                         *)
(* The second half is about the slots that the loops of the worker share,  *)
(* WorkerSlots, for any number of loops, slots and priorities: no slot     *)
(* leaks, and the loop of the last priority is served within a period.     *)
(***************************************************************************)
EXTENDS ConversionPipeline, WorkerPool, FiniteSetTheorems, FunctionTheorems, SequenceTheorems,
        WellFoundedInduction, TLAPS

Bytes(s) ==
    /\ {"size", "exact", "clean", "own"} \subseteq DOMAIN s
    /\ s.size \in Int /\ s.exact \in BOOLEAN /\ s.clean \in BOOLEAN /\ s.own \in BOOLEAN

-----------------------------------------------------------------------------
(* The compressor.                                                         *)
LEMMA InputBytes ==
    ASSUME NEW image \in Image
    PROVE  LET s == Input(image) IN
           /\ Bytes(s) /\ s.size = image.size /\ s.exact /\ s.own
           /\ s.clean = (image.stripped \/ ~CarriesMetadata(image))
  BY DEF Image, Input, Bytes, CarriesMetadata

LEMMA StreamBytes ==
    ASSUME NEW size \in Int, NEW exact \in BOOLEAN
    PROVE  LET s == Stream(size, exact) IN
           Bytes(s) /\ s.size = size /\ s.exact = exact /\ s.clean /\ ~s.own
  BY DEF Stream, Bytes

LEMMA RepackedBytes ==
    ASSUME NEW image \in Image, NEW s, Bytes(s), s.clean, ~s.own
    PROVE  LET t == RepackPalette(image, s) IN
           Bytes(t) /\ t.exact = s.exact /\ t.clean /\ ~t.own
<1> DEFINE t == [s EXCEPT !.size = @ - 1]
<1>1. /\ DOMAIN t = DOMAIN s /\ t.size = s.size - 1
      /\ t.exact = s.exact /\ t.clean = s.clean /\ t.own = s.own
  BY DEF Bytes
<1>2. RepackPalette(image, s) \in {s, t}
  BY DEF RepackPalette
<1> HIDE DEF t
<1>3. Bytes(t) /\ t.exact = s.exact /\ t.clean /\ ~t.own
  BY <1>1 DEF Bytes
<1> QED
  BY <1>2, <1>3

(* encodeLossless keeps the pixels; what it leaves alone is the input.     *)
Kept(image, s) ==
    /\ Bytes(s) /\ s.exact
    /\ ~s.own => s.clean
    /\ s.own => /\ s.size = image.size
                /\ s.clean = (image.stripped \/ ~CarriesMetadata(image))
                /\ image.format \in {"webp", "avif"} \/ s.clean

LEMMA RewrittenKept == ASSUME NEW image \in Image PROVE Kept(image, Rewritten(image))
<1>1. image.strippedSize \in Int
  BY DEF Image
<1> QED
  BY <1>1, InputBytes, StreamBytes DEF Rewritten, Kept

LEMMA LosslessKept ==
    ASSUME NEW image \in Image, image.format \in IMAGE_FORMATS
    PROVE  Kept(image, EncodeLossless(image))
<1>1. image.strippedSize \in Int
  BY DEF Image
<1>2. CASE image.format = "jpeg"
  BY <1>2, RewrittenKept DEF EncodeLossless
<1>3. CASE image.format = "webp"
  <2>1. Kept(image, Input(image))
    BY <1>3, InputBytes DEF Kept
  <2> QED
    BY <1>3, <2>1, RewrittenKept DEF EncodeLossless, StripWebpMetadata
<1>4. CASE image.format = "avif"
  BY <1>4, InputBytes DEF EncodeLossless, Kept
<1>5. CASE image.format = "png"
  <2> DEFINE s == Stream(image.strippedSize, TRUE)
  <2>1. Bytes(s) /\ s.exact /\ s.clean /\ ~s.own
    BY <1>1, StreamBytes
  <2>2. EncodeLossless(image) \in {s, RepackPalette(image, s)}
    BY <1>5 DEF EncodeLossless
  <2> HIDE DEF s
  <2>3. LET t == RepackPalette(image, s) IN Bytes(t) /\ t.exact = s.exact /\ t.clean /\ ~t.own
    BY <2>1, RepackedBytes
  <2> QED
    BY <2>1, <2>2, <2>3 DEF Kept
<1> QED
  BY <1>2, <1>3, <1>4, <1>5 DEF IMAGE_FORMATS

(* Why a stream may be the result of a mode.                               *)
Allowed(image, mode, s) ==
    /\ Bytes(s)
    /\ s.clean \/ (mode = "LOSSLESS" /\ image.format \in {"webp", "avif"} /\ s.own)
    /\ \/ s.exact
       \/ /\ mode = "LOSSY"
          /\ 10 * s.size <= 9 * image.size \/ CleanedByEncodingOnly(image)
    /\ s.own => s.clean = (image.stripped \/ ~CarriesMetadata(image))

LEMMA LosslessAllowed ==
    ASSUME NEW image \in Image, NEW mode, NEW s, Kept(image, s),
           mode = "LOSSLESS" \/ ~s.own \/ s.clean
    PROVE  Allowed(image, mode, s)
  BY DEF Kept, Allowed

(* What encodeLossless gives back as it is, with metadata.                 *)
LEMMA LeftAlone ==
    ASSUME NEW image \in Image, image.format \in {"webp", "avif"},
           EncodeLossless(image).own, CarriesMetadata(image)
    PROVE  CleanedByEncodingOnly(image)
<1>1. CASE image.format = "avif"
  BY <1>1 DEF CleanedByEncodingOnly
<1>2. CASE image.format = "webp" /\ image.sound /\ ~(image.turned /\ ~image.features)
  <2>1. EncodeLossless(image) = Rewritten(image)
    BY <1>2 DEF EncodeLossless, StripWebpMetadata
  <2>2. ~image.stripped => ~Rewritten(image).own
    BY DEF Rewritten, Stream
  <2> QED
    BY <1>2, <2>1, <2>2 DEF CleanedByEncodingOnly
<1>3. CASE image.format = "webp" /\ (~image.sound \/ (image.turned /\ ~image.features))
  BY <1>3 DEF CleanedByEncodingOnly
<1> QED
  BY <1>1, <1>2, <1>3

LEMMA LossyAllowed ==
    ASSUME NEW image \in Image, image.format \in IMAGE_FORMATS
    PROVE  Allowed(image, "LOSSY", EncodeLossy(image))
<1> DEFINE lossy == EncodedLossy(image)
           quantized == RepackPalette(image, lossy)
           lossless == EncodeLossless(image)
<1>1. image.lossySize \in Int /\ image.size \in Nat \ {0}
  BY DEF Image
<1>2. Bytes(lossy) /\ lossy.clean /\ ~lossy.own /\ ~lossy.exact
  BY <1>1, StreamBytes DEF EncodedLossy
<1>3. Kept(image, lossless)
  BY LosslessKept
<1> HIDE DEF lossy, lossless
<1>4. Bytes(quantized) /\ quantized.clean /\ ~quantized.own
  BY <1>2, RepackedBytes
<1> HIDE DEF quantized
<1>5. BuysEnough(image, lossy) \/ CleanedByEncodingOnly(image) => Allowed(image, "LOSSY", lossy)
  BY <1>2 DEF Allowed, BuysEnough
<1>6. BuysEnough(image, quantized) => Allowed(image, "LOSSY", quantized)
  BY <1>4 DEF Allowed, BuysEnough
<1>7. ~lossless.own \/ ~CarriesMetadata(image) => Allowed(image, "LOSSY", lossless)
  BY <1>3, LosslessAllowed DEF Kept
<1>8. image.format \in {"jpeg", "png"} => Allowed(image, "LOSSY", lossless)
  BY <1>3, LosslessAllowed DEF Kept
<1>9. BuysEnough(image, lossy) /\ lossless.size <= lossy.size => ~lossless.own
  BY <1>1, <1>2, <1>3 DEF Kept, BuysEnough, Bytes
<1>10. CASE image.format = "jpeg"
  BY <1>5, <1>8, <1>10 DEF EncodeLossy, lossy, lossless
<1>11. CASE image.format = "png"
  BY <1>6, <1>8, <1>11 DEF EncodeLossy, lossy, lossless, quantized
<1>12. CASE image.format \notin {"jpeg", "png"}
  <2>1. lossless.own /\ CarriesMetadata(image) => CleanedByEncodingOnly(image)
    BY <1>12, LeftAlone DEF IMAGE_FORMATS, lossless
  <2> QED
    BY <1>5, <1>7, <1>9, <1>12, <2>1 DEF EncodeLossy, lossy, lossless
<1> QED
  BY <1>10, <1>11, <1>12

LEMMA ResultAllowed ==
    ASSUME NEW image \in Image, NEW mode \in Modes, Compress(image, mode).ok
    PROVE  Allowed(image, mode, Compress(image, mode).data)
<1> DEFINE s == Encode(image, mode)
<1>1. /\ Compress(image, mode) = Result(image, s)
      /\ image.format \in IMAGE_FORMATS
  BY DEF Compress, Failed
<1>2. Allowed(image, mode, s)
  <2>1. CASE mode = "LOSSY"
    BY <1>1, <2>1, LossyAllowed DEF Encode
  <2>2. CASE mode = "LOSSLESS"
    BY <1>1, <2>2, LosslessKept, LosslessAllowed DEF Encode
  <2> QED
    BY <2>1, <2>2 DEF Modes
<1> HIDE DEF s
<1>3. CASE Kind(image, s) = "NO_SAVINGS"
  <2>1. Result(image, s).data = Input(image)
    BY <1>3 DEF Result
  <2>2. s.own \/ ~CarriesMetadata(image)
    BY <1>3 DEF Kind
  <2> QED
    BY <1>1, <1>2, <2>1, <2>2, InputBytes DEF Allowed
<1>4. CASE Kind(image, s) # "NO_SAVINGS"
  BY <1>1, <1>2, <1>4 DEF Result
<1> QED
  BY <1>3, <1>4
-----------------------------------------------------------------------------
(* The way of a file.                                                      *)
Best == Compress(case.image, Mode)
Made == [from |-> "verified", data |-> Best.data]
Excused == input # "verified" \/ ~Best.ok

Stored(attempt) == attempt \in Attempts /\ outputs[attempt] = Made
Shown(preview, attempt) == preview \in {0, attempt} /\ (preview # 0 => preview \in previews)

CaseOK ==
    /\ case \in [image : Image, mode : STRING, copies : SUBSET Message,
                 spoils : SUBSET {"replaced", "missing"}, faults : Nat]
    /\ input \in {"verified", "replaced", "missing"}

JobFields == {"at", "from", "result", "preview"}

JobOK(d) ==
    \/ job[d] = NoJob
    \/ /\ DOMAIN job[d] = JobFields
       /\ job[d].at \in {"start", "input", "output", "preview", "result", "failed", "delete"}
       /\ job[d].at \in {"output", "preview", "result"} =>
            job[d].from = "verified" /\ Best.ok /\ job[d].result = Best
       /\ job[d].at = "failed" => Excused
       /\ job[d].at \in {"preview", "result"} => Stored(d[2])
       /\ job[d].at = "result" => Shown(job[d].preview, d[2])

EventOK(e) ==
    \/ e.type = "STARTED" /\ e.attempt \in Attempts
    \/ e.type = "FAILED" /\ Excused
    \/ /\ e.type = "COMPLETED" /\ Best.ok
       /\ e.content = Made /\ e.output = e.attempt
       /\ Stored(e.output) /\ Shown(e.preview, e.attempt)

RowOK ==
    /\ {"status", "attempt", "output", "content", "preview"} = DOMAIN row
    /\ row.status \in EventAcceptingStatuses \cup {"COMPLETED", "FAILED"}
    /\ row.attempt \in 0..MaxReceives /\ row.output \in 0..MaxReceives
    /\ row.status = "COMPLETED" =>
         Best.ok /\ row.content = Made /\ Stored(row.output) /\ Shown(row.preview, row.output)
    /\ row.status = "FAILED" => Excused

Jobs == DOMAIN job = Delivery /\ \A d \in Delivery : JobOK(d)

Events ==
    /\ \A e \in events : EventOK(e)
    /\ verified \subseteq events /\ \A e \in verified : e.type = "COMPLETED"

Messages ==
    /\ message \in [Message -> [at : {"visible", "held", "deleted", "dead"},
                                receives : 0..MaxReceives]]
    /\ \A m \in Message : message[m].at = "visible" => message[m].receives < MaxReceives

IInv ==
    /\ CaseOK /\ DOMAIN outputs = Attempts /\ previews \subseteq Attempts
    /\ Jobs /\ Events /\ RowOK /\ Messages

LEMMA InitIInv == Init => IInv
<1> SUFFICES ASSUME Init PROVE IInv
  OBVIOUS
<1> USE PipelineAssumption
<1>1. CaseOK /\ DOMAIN outputs = Attempts /\ previews \subseteq Attempts
  BY DEF Init, CaseOK
<1>2. Jobs /\ Events
  BY DEF Init, Jobs, JobOK, Events
<1>3. RowOK
  BY DEF Init, RowOK, EventAcceptingStatuses
<1>4. Messages
  BY DEF Init, Messages
<1> QED
  BY <1>1, <1>2, <1>3, <1>4 DEF IInv

-----------------------------------------------------------------------------
(* Nothing that is excused or stored is so no longer.                      *)
Remains ==
    /\ Best' = Best /\ (Excused => Excused')
    /\ \A a \in Attempts : Stored(a) => Stored(a)'
    /\ previews \subseteq previews'

LEMMA CaseRemains ==
    ASSUME case' = case \/ (case'.image = case.image /\ case'.mode = case.mode)
    PROVE  Best' = Best
  BY DEF Best, Mode

LEMMA NothingTouched ==
    ASSUME case' = case \/ (case'.image = case.image /\ case'.mode = case.mode),
           input' = input, outputs' = outputs, previews \subseteq previews'
    PROVE  Remains
  BY CaseRemains DEF Remains, Excused, Stored, Made

LEMMA ShownRemains ==
    ASSUME Remains, NEW a, NEW b, Shown(a, b) PROVE Shown(a, b)'
  BY DEF Remains, Shown

LEMMA OtherJobs ==
    ASSUME Remains, NEW d \in Delivery, JobOK(d), job'[d] = job[d]
    PROVE  JobOK(d)'
<1>1. d[2] \in Attempts
  BY DEF Delivery
<1>2. Shown(job[d].preview, d[2]) => Shown(job[d].preview, d[2])'
  BY DEF Remains, Shown
<1> QED
  BY <1>1, <1>2 DEF JobOK, Remains, Shown

LEMMA JobsRemain == ASSUME Remains, Jobs, job' = job PROVE Jobs'
  BY OtherJobs DEF Jobs

LEMMA OneJob ==
    ASSUME Remains, Jobs, NEW d \in Delivery, NEW j, job' = [job EXCEPT ![d] = j],
           job'[d] = j => JobOK(d)'
    PROVE  Jobs'
<1>1. DOMAIN job' = Delivery /\ job'[d] = j /\ \A c \in Delivery \ {d} : job'[c] = job[c]
  BY DEF Jobs
<1> QED
  BY <1>1, OtherJobs DEF Jobs

LEMMA EventRemains == ASSUME Remains, NEW e, EventOK(e) PROVE EventOK(e)'
<1>1. Stored(e.output) => Stored(e.output)'
  BY DEF Remains, Stored
<1>2. Shown(e.preview, e.attempt) => Shown(e.preview, e.attempt)'
  BY DEF Remains, Shown
<1> QED
  BY <1>1, <1>2 DEF EventOK, Remains, Made

LEMMA EventsRemain ==
    ASSUME Remains, Events, events' = events, verified' = verified PROVE Events'
  BY EventRemains DEF Events

LEMMA EventAdded ==
    ASSUME Remains, Events, NEW e, EventOK(e), events' = events \cup {e}, verified' = verified
    PROVE  Events'
  BY EventRemains DEF Events

LEMMA RowRemains == ASSUME Remains, RowOK, row' = row PROVE RowOK'
<1>1. Stored(row.output) => Stored(row.output)'
  BY DEF Remains, Stored
<1>2. Shown(row.preview, row.output) => Shown(row.preview, row.output)'
  BY DEF Remains, Shown
<1> QED
  BY <1>1, <1>2 DEF RowOK, Remains, Made

LEMMA MessagesRemain == ASSUME Messages, message' = message PROVE Messages'
  BY DEF Messages
-----------------------------------------------------------------------------
(* The worker.                                                             *)
LEMMA ReceiveStep == ASSUME IInv, NEW m \in Message, Receive(m) PROVE IInv'
<1> USE PipelineAssumption DEF IInv
<1> DEFINE j == [at |-> "start", from |-> "none", result |-> Failed("none"), preview |-> 0]
<1>1. message[m].receives \in 0..MaxReceives /\ message[m].receives < MaxReceives
  BY DEF Messages, Receive
<1>2. Remains
  BY NothingTouched DEF Receive
<1>3. <<m, message[m].receives + 1>> \in Delivery
  BY <1>1 DEF Delivery, Attempts
<1>4. PICK d \in Delivery : job' = [job EXCEPT ![d] = j]
  BY <1>3 DEF Receive
<1>5. DOMAIN j = JobFields /\ j.at = "start"
  BY DEF JobFields
<1> HIDE DEF j
<1>6. job'[d] = j => JobOK(d)'
  BY <1>5 DEF JobOK
<1>7. Jobs'
  BY <1>2, <1>4, <1>6, OneJob
<1>8. Messages'
  BY <1>1 DEF Messages, Receive
<1>9. Events' /\ RowOK' /\ CaseOK'
  BY <1>2, EventsRemain, RowRemains DEF Receive, CaseOK
<1> QED
  BY <1>7, <1>8, <1>9 DEF Receive

(* A step of handle that changes its job, and adds an event at most.       *)
LEMMA Handled ==
    ASSUME IInv, NEW d \in Delivery, NEW j, job' = [job EXCEPT ![d] = j],
           Remains, job'[d] = j => JobOK(d)',
           case' = case, input' = input, message' = message, row' = row, verified' = verified,
           DOMAIN outputs' = Attempts, previews' \subseteq Attempts,
           \/ events' = events
           \/ \E e : EventOK(e) /\ events' = events \cup {e}
    PROVE  IInv'
<1> USE DEF IInv
<1>1. Jobs'
  BY OneJob
<1>2. Events'
  BY EventsRemain, EventAdded
<1>3. RowOK' /\ Messages' /\ CaseOK'
  BY RowRemains, MessagesRemain DEF CaseOK
<1> QED
  BY <1>1, <1>2, <1>3

LEMMA AtFields ==
    ASSUME NEW i, DOMAIN i = JobFields, NEW l
    PROVE  LET j == [i EXCEPT !.at = l] IN
           /\ DOMAIN j = JobFields /\ j.at = l
           /\ j.from = i.from /\ j.result = i.result /\ j.preview = i.preview
  BY DEF JobFields

LEMMA WorkingJob ==
    ASSUME IInv, NEW d \in Delivery, job[d].at # "idle"
    PROVE  JobOK(d) /\ job[d] # NoJob /\ DOMAIN job[d] = JobFields /\ d[2] \in Attempts
  BY DEF IInv, Jobs, JobOK, NoJob, Delivery

LEMMA PublishStartedStep == ASSUME IInv, NEW d \in Delivery, PublishStarted(d) PROVE IInv'
<1> DEFINE j == [job[d] EXCEPT !.at = "input"]
           e == [type |-> "STARTED", attempt |-> d[2]]
<1>1. Remains
  BY NothingTouched DEF PublishStarted
<1>2. DOMAIN job[d] = JobFields /\ d[2] \in Attempts
  BY WorkingJob DEF PublishStarted
<1>3. EventOK(e) /\ events' = events \cup {e}
  BY <1>2 DEF EventOK, PublishStarted
<1>4. job' = [job EXCEPT ![d] = j]
  BY DEF PublishStarted, Goto
<1>5. job'[d] = j => JobOK(d)'
  BY <1>2, AtFields DEF JobOK
<1> HIDE DEF j, e
<1> QED
  BY <1>1, <1>3, <1>4, <1>5, Handled DEF PublishStarted, IInv

LEMMA RefuseStep ==
    ASSUME IInv, NEW d \in Delivery, job[d].at = "input", NEW code, Refuse(d, code), Excused,
           UNCHANGED <<case, input, message, outputs, previews, events, verified, row>>
    PROVE  IInv'
<1> DEFINE i == [job[d] EXCEPT !.at = "failed"]
           j == [i EXCEPT !.result = Failed(code)]
<1>1. Remains
  BY NothingTouched
<1>2. DOMAIN job[d] = JobFields
  BY WorkingJob
<1>3. DOMAIN i = JobFields /\ i.at = "failed"
  BY <1>2, AtFields
<1>4. job' = [job EXCEPT ![d] = j]
  BY DEF Refuse
<1> HIDE DEF i
<1>5. DOMAIN j = JobFields /\ j.at = "failed"
  BY <1>3 DEF JobFields
<1> HIDE DEF j
<1>6. job'[d] = j => JobOK(d)'
  BY <1>1, <1>5 DEF JobOK, Remains
<1> QED
  BY <1>1, <1>4, <1>6, Handled DEF IInv

LEMMA ConvertStep ==
    ASSUME IInv, NEW d \in Delivery, job[d].at = "input", Convert(d), input = "verified",
           UNCHANGED <<case, input, message, outputs, previews, events, verified, row>>
    PROVE  IInv'
<1> DEFINE l == IF Best.ok THEN "output" ELSE "failed"
           h == [job[d] EXCEPT !.at = l]
           i == [h EXCEPT !.from = input]
           j == [i EXCEPT !.result = Best]
<1>1. Remains
  BY NothingTouched
<1>2. DOMAIN job[d] = JobFields
  BY WorkingJob
<1>3. DOMAIN h = JobFields /\ h.at = l
  BY <1>2, AtFields
<1>4. job' = [job EXCEPT ![d] = j]
  BY DEF Convert, Best
<1> HIDE DEF h
<1>5. DOMAIN i = JobFields /\ i.at = l /\ i.from = "verified"
  BY <1>3 DEF JobFields
<1> HIDE DEF i
<1>6. DOMAIN j = JobFields /\ j.at = l /\ j.from = "verified" /\ j.result = Best
  BY <1>5 DEF JobFields
<1> HIDE DEF j
<1>7. (l = "output" /\ Best.ok) \/ (l = "failed" /\ Excused)
  BY DEF Excused
<1> HIDE DEF l
<1>8. job'[d] = j => JobOK(d)'
  BY <1>1, <1>6, <1>7 DEF JobOK, Remains
<1> QED
  BY <1>1, <1>4, <1>8, Handled DEF IInv

LEMMA GetInputStep == ASSUME IInv, NEW d \in Delivery, GetInput(d) PROVE IInv'
<1>1. job[d].at = "input" /\ input \in {"verified", "replaced", "missing"}
  BY DEF GetInput, IInv, CaseOK
<1>2. UNCHANGED <<case, input, message, outputs, previews, events, verified, row>>
  BY DEF GetInput
<1>3. CASE input = "verified"
  BY <1>1, <1>2, <1>3, ConvertStep DEF GetInput
<1>4. CASE input # "verified"
  <2>1. Refuse(d, "INPUT_MISSING") \/ Refuse(d, "INPUT_CHANGED")
    BY <1>1, <1>4 DEF GetInput
  <2> QED
    BY <1>1, <1>2, <1>4, <2>1, RefuseStep DEF Excused
<1> QED
  BY <1>3, <1>4

(* Whoever wrote the object before made the same of it.                    *)
LEMMA PutOutputStep == ASSUME IInv, NEW d \in Delivery, PutOutput(d) PROVE IInv'
<1> DEFINE j == [job[d] EXCEPT !.at = "preview"]
<1>1. DOMAIN job[d] = JobFields /\ d[2] \in Attempts /\ JobOK(d)
  BY WorkingJob DEF PutOutput
<1>2. Content(d) = Made /\ Best.ok /\ job[d].from = "verified" /\ job[d].result = Best
  BY <1>1, WorkingJob DEF JobOK, PutOutput, Content, Made
<1>3. outputs' = [outputs EXCEPT ![d[2]] = Made]
  BY <1>2 DEF PutOutput
<1>4. Best' = Best
  BY CaseRemains DEF PutOutput
<1>5. Made' = Made
  BY <1>4 DEF Made
<1>6. DOMAIN outputs' = Attempts /\ Stored(d[2])' /\ \A a \in Attempts : Stored(a) => Stored(a)'
  BY <1>1, <1>3, <1>5 DEF IInv, Stored
<1>7. Remains
  BY <1>4, <1>6 DEF Remains, Excused, PutOutput
<1>8. job' = [job EXCEPT ![d] = j]
  BY DEF PutOutput, Goto
<1>9. /\ DOMAIN j = JobFields /\ j.at = "preview"
      /\ j.from = "verified" /\ j.result = Best
  BY <1>1, <1>2, AtFields
<1> HIDE DEF j
<1>10. job'[d] = j => JobOK(d)'
  BY <1>2, <1>4, <1>6, <1>9 DEF JobOK
<1> QED
  BY <1>6, <1>7, <1>8, <1>10, Handled DEF PutOutput, IInv

LEMMA PutPreviewStep == ASSUME IInv, NEW d \in Delivery, PutPreview(d) PROVE IInv'
<1>1. PICK kept \in BOOLEAN :
        /\ previews' = IF kept THEN previews \cup {d[2]} ELSE previews
        /\ job' = [job EXCEPT ![d] = [@ EXCEPT !.at = "result", !.preview = PreviewKey(d, kept)]]
  BY DEF PutPreview
<1> DEFINE i == [job[d] EXCEPT !.at = "result"]
           j == [i EXCEPT !.preview = PreviewKey(d, kept)]
<1>2. DOMAIN job[d] = JobFields /\ d[2] \in Attempts /\ JobOK(d) /\ job[d] # NoJob
  BY WorkingJob DEF PutPreview
<1>3. /\ Best.ok /\ Stored(d[2])
      /\ job[d].from = "verified" /\ job[d].result = Best
  BY <1>2 DEF JobOK, PutPreview
<1>4. Remains /\ previews' \subseteq Attempts
  BY <1>1, <1>2, NothingTouched DEF PutPreview, IInv
<1>5. Shown(PreviewKey(d, kept), d[2])'
  BY <1>1, <1>2 DEF Shown, PreviewKey
<1>6. DOMAIN i = JobFields /\ i.at = "result" /\ i.from = "verified" /\ i.result = Best
  BY <1>2, <1>3, AtFields
<1>7. job' = [job EXCEPT ![d] = j]
  BY <1>1
<1> HIDE DEF i
<1>8. /\ DOMAIN j = JobFields /\ j.at = "result"
      /\ j.from = "verified" /\ j.result = Best /\ j.preview = PreviewKey(d, kept)
  BY <1>6 DEF JobFields
<1> HIDE DEF j
<1>9. job'[d] = j => JobOK(d)'
  BY <1>2, <1>3, <1>4, <1>5, <1>8 DEF JobOK, Remains, Shown
<1> QED
  BY <1>4, <1>7, <1>9, Handled DEF PutPreview, IInv
LEMMA Finished ==
    ASSUME IInv, NEW d \in Delivery, DOMAIN job[d] = JobFields, Goto(d, "delete"),
           NEW e, EventOK(e), events' = events \cup {e},
           UNCHANGED <<case, input, message, outputs, previews, verified, row>>
    PROVE  IInv'
<1> DEFINE j == [job[d] EXCEPT !.at = "delete"]
<1>1. Remains
  BY NothingTouched
<1>2. job' = [job EXCEPT ![d] = j]
  BY DEF Goto
<1>3. DOMAIN j = JobFields /\ j.at = "delete"
  BY AtFields
<1> HIDE DEF j
<1>4. job'[d] = j => JobOK(d)'
  BY <1>3 DEF JobOK
<1> QED
  BY <1>1, <1>2, <1>4, Handled DEF IInv

LEMMA PublishResultStep == ASSUME IInv, NEW d \in Delivery, PublishResult(d) PROVE IInv'
<1> DEFINE e == [type |-> "COMPLETED", attempt |-> d[2], output |-> d[2],
                 content |-> Content(d), preview |-> job[d].preview]
<1>1. DOMAIN job[d] = JobFields /\ JobOK(d) /\ job[d] # NoJob
  BY WorkingJob DEF PublishResult
<1>2. /\ Content(d) = Made /\ Best.ok /\ Stored(d[2]) /\ Shown(job[d].preview, d[2])
  BY <1>1 DEF JobOK, PublishResult, Content, Made
<1>3. EventOK(e)
  BY <1>2 DEF EventOK
<1>4. Goto(d, "delete") /\ events' = events \cup {e}
  BY DEF PublishResult
<1> HIDE DEF e
<1> QED
  BY <1>1, <1>3, <1>4, Finished DEF PublishResult

LEMMA PublishFailureStep == ASSUME IInv, NEW d \in Delivery, PublishFailure(d) PROVE IInv'
<1> DEFINE e == [type |-> "FAILED", attempt |-> d[2], code |-> job[d].result.failureCode]
<1>1. DOMAIN job[d] = JobFields /\ JobOK(d) /\ job[d] # NoJob
  BY WorkingJob DEF PublishFailure
<1>2. Excused
  BY <1>1 DEF JobOK, PublishFailure
<1>3. EventOK(e)
  BY <1>2 DEF EventOK
<1>4. Goto(d, "delete") /\ events' = events \cup {e}
  BY DEF PublishFailure
<1> HIDE DEF e
<1> QED
  BY <1>1, <1>3, <1>4, Finished DEF PublishFailure

(* A job ends.                                                             *)
LEMMA NoMoreJob ==
    ASSUME Remains, Jobs, NEW d \in Delivery, job' = [job EXCEPT ![d] = NoJob]
    PROVE  Jobs'
<1>1. job'[d] = NoJob => JobOK(d)'
  BY DEF JobOK
<1> QED
  BY <1>1, OneJob

LEMMA MessageMoved ==
    ASSUME Messages, NEW m \in Message, NEW l \in {"visible", "held", "deleted", "dead"},
           message' = [message EXCEPT ![m] = [@ EXCEPT !.at = l]],
           l = "visible" => message[m].receives < MaxReceives
    PROVE  Messages'
<1> DEFINE i == [message[m] EXCEPT !.at = l]
<1>1. message[m] \in [at : {"visible", "held", "deleted", "dead"}, receives : 0..MaxReceives]
  BY DEF Messages
<1>2. /\ i \in [at : {"visible", "held", "deleted", "dead"}, receives : 0..MaxReceives]
      /\ i.at = l /\ i.receives = message[m].receives
  BY <1>1
<1>3. message' = [message EXCEPT ![m] = i]
  OBVIOUS
<1> HIDE DEF i
<1> QED
  BY <1>2, <1>3 DEF Messages

LEMMA DeleteMessageStep == ASSUME IInv, NEW d \in Delivery, DeleteMessage(d) PROVE IInv'
<1> USE DEF IInv
<1>1. Remains
  BY NothingTouched DEF DeleteMessage
<1>2. Jobs'
  BY <1>1, NoMoreJob DEF DeleteMessage
<1>3. Messages'
  <2>1. d[1] \in Message
    BY DEF Delivery
  <2>2. CASE Latest(d)
    <3>1. message' = [message EXCEPT ![d[1]] = [@ EXCEPT !.at = "deleted"]]
      BY <2>2 DEF DeleteMessage
    <3> QED
      BY <2>1, <3>1, MessageMoved
  <2>3. CASE ~Latest(d)
    BY <2>3, MessagesRemain DEF DeleteMessage
  <2> QED
    BY <2>2, <2>3
<1>4. Events' /\ RowOK' /\ CaseOK'
  BY <1>1, EventsRemain, RowRemains DEF DeleteMessage, CaseOK
<1> QED
  BY <1>2, <1>3, <1>4 DEF DeleteMessage

-----------------------------------------------------------------------------
(* Faults, the queue and the client.                                       *)
LEMMA FaultCase ==
    ASSUME CaseOK, Fault, input' = input
    PROVE  CaseOK' /\ case'.image = case.image /\ case'.mode = case.mode
<1> DEFINE c == [case EXCEPT !.faults = case.faults - 1]
<1>1. /\ c \in [image : Image, mode : STRING, copies : SUBSET Message,
                spoils : SUBSET {"replaced", "missing"}, faults : Nat]
      /\ c.image = case.image /\ c.mode = case.mode
  BY DEF CaseOK, Fault
<1>2. case' = c
  BY DEF Fault
<1> HIDE DEF c
<1> QED
  BY <1>1, <1>2 DEF CaseOK

LEMMA AbandonStep == ASSUME IInv, NEW d \in Delivery, Abandon(d) PROVE IInv'
<1> USE DEF IInv
<1>1. CaseOK' /\ Remains
  BY FaultCase, NothingTouched DEF Abandon
<1>2. Jobs'
  BY <1>1, NoMoreJob DEF Abandon
<1>3. Events' /\ RowOK' /\ Messages'
  BY <1>1, EventsRemain, RowRemains, MessagesRemain DEF Abandon
<1> QED
  BY <1>1, <1>2, <1>3 DEF Abandon

LEMMA ReappearMessages ==
    ASSUME Messages, NEW m \in Message, Reappear(m) PROVE Messages'
<1>1. CASE message[m].receives < MaxReceives
  <2>1. message' = [message EXCEPT ![m] = [@ EXCEPT !.at = "visible"]]
    BY <1>1 DEF Reappear
  <2> QED
    BY <1>1, <2>1, MessageMoved
<1>2. CASE ~(message[m].receives < MaxReceives)
  <2>1. message' = [message EXCEPT ![m] = [@ EXCEPT !.at = "dead"]]
    BY <1>2 DEF Reappear
  <2> QED
    BY <2>1, MessageMoved
<1> QED
  BY <1>1, <1>2

LEMMA VisibilityEndsStep == ASSUME IInv, NEW m \in Message, VisibilityEnds(m) PROVE IInv'
<1> USE DEF IInv
<1>1. Remains
  BY NothingTouched DEF VisibilityEnds
<1>2. Messages'
  BY ReappearMessages DEF VisibilityEnds
<1>3. Jobs' /\ Events' /\ RowOK' /\ CaseOK'
  BY <1>1, JobsRemain, EventsRemain, RowRemains DEF VisibilityEnds, CaseOK
<1> QED
  BY <1>2, <1>3 DEF VisibilityEnds

LEMMA RefreshFailsStep == ASSUME IInv, NEW m \in Message, RefreshFails(m) PROVE IInv'
<1> USE DEF IInv
<1>1. CaseOK' /\ Remains
  BY FaultCase, NothingTouched DEF RefreshFails
<1>2. Messages'
  BY ReappearMessages DEF RefreshFails
<1>3. Jobs' /\ Events' /\ RowOK'
  BY <1>1, JobsRemain, EventsRemain, RowRemains DEF RefreshFails
<1> QED
  BY <1>1, <1>2, <1>3 DEF RefreshFails

LEMMA InputChangesStep == ASSUME IInv, InputChanges PROVE IInv'
<1> USE DEF IInv
<1>1. CaseOK' /\ input' # "verified"
  BY DEF InputChanges, CaseOK
<1>2. Remains
  BY <1>1, CaseRemains DEF InputChanges, Remains, Excused, Stored, Made
<1>3. Jobs' /\ Events' /\ RowOK' /\ Messages'
  BY <1>2, JobsRemain, EventsRemain, RowRemains, MessagesRemain DEF InputChanges
<1> QED
  BY <1>1, <1>3 DEF InputChanges
-----------------------------------------------------------------------------
(* conversion-api.                                                         *)
LEMMA VerifyStep == ASSUME IInv, NEW e \in events, Verify(e) PROVE IInv'
<1> USE DEF IInv
<1>1. Remains
  BY NothingTouched DEF Verify
<1>2. Events'
  BY <1>1, EventRemains DEF Verify, Events, queues
<1>3. Jobs' /\ RowOK' /\ Messages' /\ CaseOK'
  BY <1>1, JobsRemain, RowRemains, MessagesRemain DEF Verify, queues, CaseOK
<1> QED
  BY <1>2, <1>3 DEF Verify

LEMMA StartedRow ==
    ASSUME Remains, RowOK, NEW e, EventOK(e), ApplyStarted(e) PROVE RowOK'
<1>1. CASE row' = row
  BY <1>1, RowRemains
<1>2. CASE row' # row
  <2> DEFINE i == [row EXCEPT !.status = "PROCESSING"]
             j == [i EXCEPT !.attempt = e.attempt]
  <2>1. /\ DOMAIN i = DOMAIN row /\ i.status = "PROCESSING" /\ i.output = row.output
    BY DEF RowOK
  <2>2. row' = j
    BY <1>2 DEF ApplyStarted
  <2> HIDE DEF i
  <2>3. /\ DOMAIN j = DOMAIN row /\ j.status = "PROCESSING"
        /\ j.attempt = e.attempt /\ j.output = row.output
    BY <2>1 DEF RowOK
  <2> HIDE DEF j
  <2>4. e.attempt \in Attempts
    BY DEF EventOK, ApplyStarted
  <2> QED
    BY <2>2, <2>3, <2>4, PipelineAssumption DEF RowOK, EventAcceptingStatuses, Attempts
<1> QED
  BY <1>1, <1>2

LEMMA FailedRow ==
    ASSUME Remains, RowOK, NEW e, EventOK(e), ApplyFailure(e) PROVE RowOK'
<1>1. CASE row' = row
  BY <1>1, RowRemains
<1>2. CASE row' # row
  <2> DEFINE i == [row EXCEPT !.status = "FAILED"]
  <2>1. /\ DOMAIN i = DOMAIN row /\ i.status = "FAILED"
        /\ i.attempt = row.attempt /\ i.output = row.output
    BY DEF RowOK
  <2>2. row' = i
    BY <1>2 DEF ApplyFailure
  <2> HIDE DEF i
  <2>3. Excused'
    BY DEF EventOK, ApplyFailure, Remains
  <2> QED
    BY <2>1, <2>2, <2>3 DEF RowOK
<1> QED
  BY <1>1, <1>2

LEMMA CompletedRow ==
    ASSUME Remains, RowOK, Events, NEW e, EventOK(e), ApplyCompleted(e) PROVE RowOK'
<1>1. CASE row' = row
  BY <1>1, RowRemains
<1>2. CASE row' # row
  <2> DEFINE j == [status |-> "COMPLETED", attempt |-> row.attempt, output |-> e.output,
                   content |-> e.content, preview |-> e.preview]
  <2>1. row' = j
    BY <1>2 DEF ApplyCompleted
  <2>2. e.type = "COMPLETED"
    BY DEF ApplyCompleted, Events
  <2>3. /\ Best.ok /\ e.content = Made /\ e.output \in Attempts
        /\ Stored(e.output) /\ Shown(e.preview, e.output)
    BY <2>2 DEF EventOK, Stored
  <2>4. Stored(e.output)' /\ Shown(e.preview, e.output)' /\ Made' = Made /\ Best' = Best
    BY <2>3 DEF Remains, Shown, Made
  <2>5. /\ j.status = "COMPLETED" /\ j.attempt = row.attempt /\ j.output = e.output
        /\ j.content = Made /\ j.preview = e.preview
        /\ DOMAIN j = {"status", "attempt", "output", "content", "preview"}
    BY <2>3
  <2> HIDE DEF j
  <2>6. e.output \in 0..MaxReceives
    BY <2>3, PipelineAssumption DEF Attempts
  <2> QED
    BY <2>1, <2>3, <2>4, <2>5, <2>6 DEF RowOK, Shown
<1> QED
  BY <1>1, <1>2

LEMMA ApplyStep == ASSUME IInv, NEW e \in events, Apply(e) PROVE IInv'
<1> USE DEF IInv
<1>1. Remains /\ EventOK(e)
  BY NothingTouched DEF Apply, Events
<1>2. RowOK'
  BY <1>1, StartedRow, FailedRow, CompletedRow DEF Apply
<1>3. Events'
  BY <1>1, EventRemains DEF Apply, Events
<1>4. Jobs' /\ Messages' /\ CaseOK'
  BY <1>1, JobsRemain, MessagesRemain DEF Apply, CaseOK
<1> QED
  BY <1>2, <1>3, <1>4 DEF Apply

-----------------------------------------------------------------------------
LEMMA StepIInv == IInv /\ [Next]_vars => IInv'
<1> SUFFICES ASSUME IInv, [Next]_vars PROVE IInv'
  OBVIOUS
<1>1. ASSUME NEW m \in Message, Receive(m) \/ VisibilityEnds(m) \/ RefreshFails(m) PROVE IInv'
  BY <1>1, ReceiveStep, VisibilityEndsStep, RefreshFailsStep
<1>2. ASSUME NEW d \in Delivery, Handle(d) \/ Abandon(d) PROVE IInv'
  BY <1>2, PublishStartedStep, GetInputStep, PutOutputStep, PutPreviewStep, PublishResultStep,
     PublishFailureStep, DeleteMessageStep, AbandonStep DEF Handle
<1>3. CASE Consume
  BY <1>3, VerifyStep, ApplyStep DEF Consume
<1>4. CASE UNCHANGED vars
  <2>1. Remains
    BY <1>4, NothingTouched DEF vars, queues
  <2> QED
    BY <1>4, <2>1, JobsRemain, EventsRemain, RowRemains, MessagesRemain
    DEF IInv, vars, queues, CaseOK
<1> QED
  BY <1>1, <1>2, <1>3, <1>4, InputChangesStep DEF Next

(* Every job, event and stored object is of the verified input, or the     *)
(* client or a fault is the reason.                                        *)
THEOREM Invariant == Spec => []IInv
  BY InitIInv, StepIInv, PTL DEF Spec

(* What the row of a finished file points to is in the bucket as the       *)
(* worker reported it, whatever its other deliveries write meanwhile       *)
(* (queue-consumer.service.ts, worker-event-processor.service.ts).         *)
THEOREM FinishedIsStored == Spec => []CompletedIsStored
<1>1. IInv => TypeOK
  <2> SUFFICES ASSUME IInv PROVE TypeOK
    OBVIOUS
  <2>1. ASSUME NEW d \in Delivery
        PROVE  job[d].at \in {"idle", "start", "input", "output", "preview", "result",
                              "failed", "delete"}
    BY DEF IInv, Jobs, JobOK, NoJob
  <2> QED
    BY <2>1 DEF TypeOK, IInv, CaseOK, Messages, Events, RowOK
<1>2. IInv => CompletedIsStored
  BY <1>1 DEF IInv, RowOK, Stored, Shown, CompletedIsStored
<1> QED
  BY <1>2, Invariant, PTL

(* It was made of the input the api verified: getInput refuses any other.  *)
THEOREM MadeOfVerifiedInput == Spec => []ResultOfVerifiedInput
<1>1. IInv => ResultOfVerifiedInput
  BY DEF IInv, RowOK, Made, Best, ResultOfVerifiedInput
<1> QED
  BY <1>1, Invariant, PTL

(* No fault fails a file: only its input does (publishFailure).            *)
THEOREM FailedForItsInput == Spec => []FailuresAreDeserved
<1>1. IInv => FailuresAreDeserved
  BY DEF IInv, RowOK, Excused, Best, FailuresAreDeserved
<1> QED
  BY <1>1, Invariant, PTL

LEMMA ReportedAllowed ==
    ASSUME IInv, NEW e \in events, e.type = "COMPLETED"
    PROVE  /\ Allowed(case.image, Mode, e.content.data)
           /\ case.image \in Image
<1>1. Best.ok /\ e.content.data = Best.data
  BY DEF IInv, Events, EventOK, Made
<1>2. case.image \in Image /\ Mode \in Modes
  BY DEF IInv, CaseOK, Mode, Modes
<1> QED
  BY <1>1, <1>2, ResultAllowed DEF Best

(* image-compressor.service.ts: for every image, no result carries         *)
(* metadata but one left as it is on request.                              *)
THEOREM MetadataIsGone == Spec => []ResultsAreClean
<1>1. IInv => ResultsAreClean
  BY ReportedAllowed DEF Allowed, ResultsAreClean
<1> QED
  BY <1>1, Invariant, PTL

(* And its pixels change only in LOSSY mode, for a tenth of the bytes or   *)
(* for metadata that stripping (encodeLossless) leaves in place.           *)
THEOREM PixelsAreWorthIt == Spec => []PixelsLostForAReason
<1>1. IInv => PixelsLostForAReason
  BY ReportedAllowed DEF Allowed, PixelsLostForAReason
<1> QED
  BY <1>1, Invariant, PTL

-----------------------------------------------------------------------------
(* The slots of the poll loops: WorkerSlots over the state of WorkerPool.  *)
Pool == INSTANCE WorkerSlots

(* A sequence with an element inserted, and one with an element removed.   *)
LEMMA Part ==
    ASSUME NEW S, NEW s \in Seq(S), NEW m \in 1..(Len(s) + 1), NEW n \in 0..Len(s)
    PROVE  /\ SubSeq(s, m, n) \in Seq(S)
           /\ Len(SubSeq(s, m, n)) = IF m <= n THEN n - m + 1 ELSE 0
           /\ \A i \in 1..(n - m + 1) : SubSeq(s, m, n)[i] = s[m + i - 1]
<1>1. Len(s) \in Nat /\ m \in Int /\ n \in Int
  OBVIOUS
<1>2. \A i \in m..n : s[i] \in S
  <2> SUFFICES ASSUME NEW i \in m..n PROVE s[i] \in S
    OBVIOUS
  <2>1. i \in 1..Len(s)
    BY <1>1
  <2> QED
    BY <2>1, ElementOfSeq
<1> QED
  BY <1>1, <1>2, SubSeqProperties

Insertion(S, t, s, k, x) ==
    /\ t \in Seq(S) /\ Len(t) = Len(s) + 1 /\ t[k] = x
    /\ \A i \in 1..(k - 1) : t[i] = s[i]
    /\ \A i \in (k + 1)..(Len(s) + 1) : t[i] = s[i - 1]

LEMMA Inserted ==
    ASSUME NEW S, NEW s \in Seq(S), NEW x \in S, NEW k \in 1..(Len(s) + 1)
    PROVE  Insertion(S, Pool!InsertAt(s, k, x), s, k, x)
<1> DEFINE u == SubSeq(s, 1, k - 1)
           w == SubSeq(s, k, Len(s))
           v == u \o <<x>>
           t == v \o w
<1>1. Len(s) \in Nat
  OBVIOUS
<1>2. u \in Seq(S) /\ Len(u) = k - 1 /\ \A i \in 1..(k - 1) : u[i] = s[i]
  <2>1. 1 \in 1..(Len(s) + 1) /\ k - 1 \in 0..Len(s)
    BY <1>1
  <2>2. /\ u \in Seq(S) /\ Len(u) = IF 1 <= k - 1 THEN k - 1 - 1 + 1 ELSE 0
        /\ \A i \in 1..(k - 1 - 1 + 1) : u[i] = s[1 + i - 1]
    BY <2>1, Part
  <2> QED
    BY <2>1, <2>2
<1>3. /\ w \in Seq(S) /\ Len(w) = Len(s) - k + 1
      /\ \A i \in 1..(Len(s) - k + 1) : w[i] = s[k + i - 1]
  <2>1. Len(s) \in 0..Len(s)
    BY <1>1
  <2>2. /\ w \in Seq(S) /\ Len(w) = IF k <= Len(s) THEN Len(s) - k + 1 ELSE 0
        /\ \A i \in 1..(Len(s) - k + 1) : w[i] = s[k + i - 1]
    BY <2>1, Part
  <2> QED
    BY <1>1, <2>2
<1> HIDE DEF u, w
<1>4. /\ v \in Seq(S) /\ Len(v) = k
      /\ \A i \in 1..k : v[i] = IF i <= k - 1 THEN u[i] ELSE x
  <2>1. <<x>> \in Seq(S) /\ Len(<<x>>) = 1 /\ <<x>>[1] = x
    OBVIOUS
  <2>2. /\ v \in Seq(S) /\ Len(v) = Len(u) + 1
        /\ \A i \in 1..(Len(u) + 1) : v[i] = IF i <= Len(u) THEN u[i] ELSE <<x>>[i - Len(u)]
    BY <1>2, <2>1, ConcatProperties
  <2>3. \A i \in 1..k : ~(i <= k - 1) => i - (k - 1) = 1
    BY <1>1
  <2> HIDE DEF v
  <2> QED
    BY <1>1, <1>2, <2>1, <2>2, <2>3
<1> HIDE DEF v
<1>5. /\ t \in Seq(S) /\ Len(t) = Len(s) + 1
      /\ \A i \in 1..(Len(s) + 1) : t[i] = IF i <= k THEN v[i] ELSE w[i - k]
  <2>1. /\ t \in Seq(S) /\ Len(t) = Len(v) + Len(w)
        /\ \A i \in 1..(Len(v) + Len(w)) : t[i] = IF i <= Len(v) THEN v[i] ELSE w[i - Len(v)]
    BY <1>3, <1>4, ConcatProperties
  <2> HIDE DEF t
  <2> QED
    BY <1>1, <1>3, <1>4, <2>1
<1> HIDE DEF t
<1>6. t[k] = x
  BY <1>1, <1>4, <1>5
<1>7. ASSUME NEW i \in 1..(k - 1) PROVE t[i] = s[i]
  <2>1. i \in 1..k /\ i \in 1..(Len(s) + 1) /\ i <= k /\ i <= k - 1
    BY <1>1
  <2> QED
    BY <1>2, <1>4, <1>5, <2>1
<1>8. ASSUME NEW i \in (k + 1)..(Len(s) + 1) PROVE t[i] = s[i - 1]
  <2>1. i \in 1..(Len(s) + 1) /\ ~(i <= k) /\ i - k \in 1..(Len(s) - k + 1) /\ k + (i - k) - 1 = i - 1
    BY <1>1
  <2> QED
    BY <1>3, <1>5, <2>1
<1>9. t = Pool!InsertAt(s, k, x)
  BY DEF Pool!InsertAt, u, v, w, t
<1> QED
  BY <1>5, <1>6, <1>7, <1>8, <1>9 DEF Insertion

LEMMA Removed ==
    ASSUME NEW S, NEW s \in Seq(S), NEW k \in 1..Len(s)
    PROVE  LET t == Pool!RemoveAt(s, k) IN
           /\ t \in Seq(S) /\ Len(t) = Len(s) - 1
           /\ \A i \in 1..(k - 1) : t[i] = s[i]
           /\ \A i \in k..(Len(s) - 1) : t[i] = s[i + 1]
<1> DEFINE u == SubSeq(s, 1, k - 1)
           w == SubSeq(s, k + 1, Len(s))
           t == u \o w
<1>1. Len(s) \in Nat
  OBVIOUS
<1>2. u \in Seq(S) /\ Len(u) = k - 1 /\ \A i \in 1..(k - 1) : u[i] = s[i]
  <2>1. 1 \in 1..(Len(s) + 1) /\ k - 1 \in 0..Len(s)
    BY <1>1
  <2>2. /\ u \in Seq(S) /\ Len(u) = IF 1 <= k - 1 THEN k - 1 - 1 + 1 ELSE 0
        /\ \A i \in 1..(k - 1 - 1 + 1) : u[i] = s[1 + i - 1]
    BY <2>1, Part
  <2> QED
    BY <2>1, <2>2
<1>3. w \in Seq(S) /\ Len(w) = Len(s) - k /\ \A i \in 1..(Len(s) - k) : w[i] = s[k + i]
  <2>1. Len(s) \in 0..Len(s) /\ k + 1 \in 1..(Len(s) + 1)
    BY <1>1
  <2>2. /\ w \in Seq(S) /\ Len(w) = IF k + 1 <= Len(s) THEN Len(s) - (k + 1) + 1 ELSE 0
        /\ \A i \in 1..(Len(s) - (k + 1) + 1) : w[i] = s[(k + 1) + i - 1]
    BY <2>1, Part
  <2>3. \A i \in 1..(Len(s) - k) : (k + 1) + i - 1 = k + i
    BY <1>1
  <2> QED
    BY <1>1, <2>2, <2>3
<1> HIDE DEF u, w
<1>5. /\ t \in Seq(S) /\ Len(t) = Len(s) - 1
      /\ \A i \in 1..(Len(s) - 1) : t[i] = IF i <= k - 1 THEN u[i] ELSE w[i - (k - 1)]
  <2>1. /\ t \in Seq(S) /\ Len(t) = Len(u) + Len(w)
        /\ \A i \in 1..(Len(u) + Len(w)) : t[i] = IF i <= Len(u) THEN u[i] ELSE w[i - Len(u)]
    BY <1>2, <1>3, ConcatProperties
  <2> HIDE DEF t
  <2> QED
    BY <1>1, <1>2, <1>3, <2>1
<1> HIDE DEF t
<1>7. ASSUME NEW i \in 1..(k - 1) PROVE t[i] = s[i]
  <2>1. i \in 1..(Len(s) - 1) /\ i <= k - 1
    BY <1>1
  <2> QED
    BY <1>2, <1>5, <2>1
<1>8. ASSUME NEW i \in k..(Len(s) - 1) PROVE t[i] = s[i + 1]
  <2>1. i \in 1..(Len(s) - 1) /\ ~(i <= k - 1) /\ i - (k - 1) \in 1..(Len(s) - k)
        /\ k + (i - (k - 1)) = i + 1
    BY <1>1
  <2> QED
    BY <1>3, <1>5, <2>1
<1>9. t = Pool!RemoveAt(s, k)
  BY DEF Pool!RemoveAt, u, w, t
<1> QED
  BY <1>5, <1>7, <1>8, <1>9

-----------------------------------------------------------------------------
Handling == {l \in Loop : loop[l] = "handling"}

SlotsTyped ==
    /\ running \in BOOLEAN
    /\ loop \in [Loop -> LoopStates]
    /\ active \in 0..Slots
    /\ waiters \in Seq(Loop)
    /\ grants \in 0..(Period - 1)
    /\ overtaken \in [Loop -> 0..Period]

(* Whoever waits is in the queue, once, and all slots are taken.           *)
Queued ==
    /\ \A i, j \in 1..Len(waiters) : waiters[i] = waiters[j] => i = j
    /\ \A l \in Loop : loop[l] = "waiting" <=> \E i \in 1..Len(waiters) : waiters[i] = l
    /\ waiters # << >> => active = Slots

Accounted == active = Cardinality(Handling)

(* A single waiter of the last priority stays at the end of the queue, and *)
(* has seen no more grants than the count towards its turn.                *)
LastInQueue ==
    /\ \A l \in Loop : loop[l] # "waiting" => overtaken[l] = 0
    /\ \A l \in Loop : LastPriority(l) /\ loop[l] = "waiting" =>
         waiters[Len(waiters)] = l /\ overtaken[l] <= grants

SlotsInv == SlotsTyped /\ Queued /\ Accounted /\ LastInQueue

-----------------------------------------------------------------------------
LEMMA LeastOfSome == ASSUME NEW T \in SUBSET Nat, T # {} PROVE \E x \in T : \A y \in T : x <= y
<1>1. PICK x \in T : \A y \in T : ~(<<y, x>> \in OpToRel(<, Nat))
  BY NatLessThanWellFounded, WFMin
<1>2. ASSUME NEW y \in T PROVE x <= y
  <2>1. ~(y < x)
    BY <1>1 DEF OpToRel
  <2> QED
    BY <2>1
<1> QED
  BY <1>2

LEMMA Modulo == ASSUME NEW p \in Nat \ {0}, NEW a \in 0..(p - 1) PROVE a % p = a
<1>1. a = p * (a \div p) + (a % p) /\ a % p \in 0..(p - 1) /\ a \div p \in Int
  OBVIOUS
<1>2. a \div p = 0
  BY <1>1
<1> QED
  BY <1>1, <1>2

LEMMA MaxUpTo ==
    ASSUME NEW n \in Nat, NEW S \in SUBSET (0..n), S # {}
    PROVE  Pool!Max(S) \in S /\ \A x \in S : x <= Pool!Max(S)
<1> DEFINE T == {n - x : x \in S}
<1>1. T \in SUBSET Nat /\ T # {}
  <2>1. \A x \in S : n - x \in Nat
    <3>1. \A x \in 0..n : n - x \in Nat
      OBVIOUS
    <3> QED
      BY <3>1
  <2> QED
    BY <2>1
<1> HIDE DEF T
<1>2. PICK y \in T : \A z \in T : y <= z
  BY <1>1, LeastOfSome
<1>3. PICK x \in S : y = n - x
  BY <1>2 DEF T
<1>4. \A z \in S : x >= z
  BY <1>2, <1>3 DEF T
<1>5. \E b \in S : \A z \in S : b >= z
  BY <1>4
<1> QED
  BY <1>5 DEF Pool!Max

-----------------------------------------------------------------------------
(* Where acquire puts a waiter: a single one of the last priority stays    *)
(* behind all others.                                                      *)
LEMMA Placed ==
    ASSUME SlotsInv, NEW l \in Loop, loop[l] # "waiting"
    PROVE  \E k \in 1..(Len(waiters) + 1) :
             /\ Pool!Enqueue(l) = Pool!InsertAt(waiters, k, l)
             /\ LastPriority(l) => k = Len(waiters) + 1
             /\ \A m \in Loop \ {l} :
                  LastPriority(m) /\ waiters # << >> /\ waiters[Len(waiters)] = m =>
                    k <= Len(waiters)
<1> DEFINE B == Pool!Before(l) \cup {0}
           k == Pool!Max(B) + 1
           n == Len(waiters)
<1>1. n \in Nat /\ waiters \in [1..n -> Loop]
  BY DEF SlotsInv, SlotsTyped
<1>2. B \in SUBSET (0..n) /\ B # {}
  BY <1>1 DEF Pool!Before
<1> HIDE DEF B
<1> DEFINE last == Pool!Max(B)
<1>3. last \in B /\ last \in 0..n /\ \A x \in B : x <= last
  BY <1>1, <1>2, MaxUpTo
<1>8. k = last + 1
  OBVIOUS
<1> HIDE DEF last, k
<1>4. k \in 1..(n + 1)
  BY <1>1, <1>3, <1>8
<1>5. ASSUME LastPriority(l) PROVE k = n + 1
  <2>1. ASSUME n # 0 PROVE n \in B
    <3>1. waiters[n] \in Loop /\ waiters[n] # l /\ n \in DOMAIN waiters
      BY <1>1, <2>1 DEF SlotsInv, Queued
    <3>2. Priority[waiters[n]] < Priority[l]
      BY <1>5, <3>1 DEF LastPriority
    <3>3. Priority[waiters[n]] \in Nat /\ Priority[l] \in Nat
      BY <3>1, SlotsAssumption
    <3> QED
      BY <3>1, <3>2, <3>3 DEF B, Pool!Before
  <2>2. n \in B
    BY <2>1 DEF B
  <2>3. n <= last
    BY <1>3, <2>2
  <2> HIDE DEF n
  <2> QED
    BY <1>1, <1>3, <1>8, <2>3
<1>6. ASSUME NEW m \in Loop \ {l}, LastPriority(m), waiters # << >>, waiters[n] = m
      PROVE  k <= n
  <2>1. Priority[l] < Priority[m] /\ Priority[l] \in Nat /\ Priority[m] \in Nat
    BY <1>6, SlotsAssumption DEF LastPriority
  <2>2. n # 0
    BY <1>6 DEF SlotsInv, SlotsTyped
  <2>3. n \notin B
    BY <1>6, <2>1, <2>2 DEF B, Pool!Before
  <2>4. last # n
    BY <1>3, <2>3
  <2> HIDE DEF n
  <2> QED
    BY <1>1, <1>3, <1>8, <2>4
<1>7. Pool!Enqueue(l) = Pool!InsertAt(waiters, k, l)
  BY DEF Pool!Enqueue, B, k, last
<1> QED
  BY <1>4, <1>5, <1>6, <1>7

(* Handling one more, or one less.                                         *)
LEMMA HandlingFinite ==
    IsFiniteSet(Handling) /\ Cardinality(Handling) \in Nat
<1>1. IsFiniteSet(Handling)
  BY FS_Subset, SlotsAssumption DEF Handling
<1> QED
  BY <1>1, FS_CardinalityType

LEMMA InitSlots == ASSUME Pool!Init PROVE SlotsInv
<1>1. SlotsTyped
  BY SlotsAssumption DEF Pool!Init, SlotsTyped, LoopStates
<1>2. Handling = {}
  BY DEF Pool!Init, Handling
<1>3. Accounted
  BY <1>2, FS_EmptySet DEF Pool!Init, Accounted
<1>4. Len(waiters) = 0
  BY DEF Pool!Init
<1>5. Queued /\ LastInQueue
  BY <1>4 DEF Pool!Init, Queued, LastInQueue
<1> QED
  BY <1>1, <1>3, <1>5 DEF SlotsInv

(* A loop that neither waits nor handles before and after.                 *)
LEMMA ElsewhereStep ==
    ASSUME SlotsInv, NEW l \in Loop, NEW to \in LoopStates,
           running' \in BOOLEAN, UNCHANGED <<active, waiters, grants, overtaken>>,
           loop[l] \notin {"waiting", "handling"}, to \notin {"waiting", "handling"},
           loop' = [loop EXCEPT ![l] = to]
    PROVE  SlotsInv'
<1>1. SlotsTyped'
  BY DEF SlotsInv, SlotsTyped
<1>2. loop \in [Loop -> LoopStates]
  BY DEF SlotsInv, SlotsTyped
<1>3. \A m \in Loop : /\ loop'[m] = "waiting" <=> loop[m] = "waiting"
                      /\ loop'[m] = "handling" <=> loop[m] = "handling"
  BY <1>2
<1>4. Handling' = Handling
  BY <1>3 DEF Handling
<1>5. Accounted'
  BY <1>4 DEF SlotsInv, Accounted
<1>6. Queued' /\ LastInQueue'
  BY <1>3 DEF SlotsInv, Queued, LastInQueue
<1> QED
  BY <1>1, <1>5, <1>6 DEF SlotsInv

LEMMA InsertedWaiter ==
    ASSUME waiters \in Seq(Loop), NEW l \in Loop, NEW k \in 1..(Len(waiters) + 1),
           waiters' = Pool!InsertAt(waiters, k, l)
    PROVE  /\ waiters' \in Seq(Loop) /\ Len(waiters') = Len(waiters) + 1 /\ waiters'[k] = l
           /\ \A i \in 1..(k - 1) : waiters'[i] = waiters[i]
           /\ \A i \in (k + 1)..(Len(waiters) + 1) : waiters'[i] = waiters[i - 1]
<1>1. Insertion(Loop, Pool!InsertAt(waiters, k, l), waiters, k, l)
  BY Inserted, Zenon
<1> QED
  BY <1>1 DEF Insertion

LEMMA SlotReceivedStep ==
    ASSUME SlotsInv, NEW l \in Loop, Pool!Receive(l) PROVE SlotsInv'
<1>0. /\ loop \in [Loop -> LoopStates] /\ loop[l] = "receiving"
      /\ UNCHANGED <<running, grants, overtaken>>
      /\ active \in 0..Slots /\ Slots \in Nat /\ waiters \in Seq(Loop)
  BY SlotsAssumption DEF SlotsInv, SlotsTyped, Pool!Receive
<1>1. CASE active < Slots
  <2>1. /\ active' = active + 1 /\ loop' = [loop EXCEPT ![l] = "handling"]
        /\ waiters' = waiters
    BY <1>1 DEF Pool!Receive
  <2>2. SlotsTyped'
    BY <1>0, <1>1, <2>1 DEF SlotsInv, SlotsTyped, LoopStates
  <2>3. waiters = << >>
    BY <1>0, <1>1 DEF SlotsInv, Queued
  <2>4. Handling' = Handling \cup {l} /\ l \notin Handling
    BY <1>0, <2>1 DEF Handling
  <2>5. Accounted'
    BY <2>1, <2>4, HandlingFinite, FS_AddElement DEF SlotsInv, Accounted
  <2>6. \A m \in Loop : loop'[m] = "waiting" <=> loop[m] = "waiting"
    BY <1>0, <2>1
  <2>7. Queued' /\ LastInQueue'
    BY <1>0, <2>1, <2>3, <2>6 DEF SlotsInv, Queued, LastInQueue
  <2> QED
    BY <2>2, <2>5, <2>7 DEF SlotsInv
<1>2. CASE ~(active < Slots)
  <2>1. /\ waiters' = Pool!Enqueue(l) /\ loop' = [loop EXCEPT ![l] = "waiting"]
        /\ active' = active
    BY <1>2 DEF Pool!Receive
  <2> DEFINE n == Len(waiters)
  <2>2. PICK k \in 1..(n + 1) :
             /\ Pool!Enqueue(l) = Pool!InsertAt(waiters, k, l)
             /\ LastPriority(l) => k = n + 1
             /\ \A m \in Loop \ {l} :
                  LastPriority(m) /\ waiters # << >> /\ waiters[n] = m => k <= n
    BY <1>0, Placed
  <2>3. n \in Nat
    BY <1>0
  <2>4. /\ waiters' \in Seq(Loop) /\ Len(waiters') = n + 1 /\ waiters'[k] = l
        /\ \A i \in 1..(k - 1) : waiters'[i] = waiters[i]
        /\ \A i \in (k + 1)..(n + 1) : waiters'[i] = waiters[i - 1]
    <3>1. k \in 1..(Len(waiters) + 1) /\ waiters' = Pool!InsertAt(waiters, k, l)
      BY <2>1, <2>2
    <3> QED
      BY <1>0, <3>1, InsertedWaiter
  <2>5. SlotsTyped'
    BY <1>0, <2>1, <2>4 DEF SlotsInv, SlotsTyped, LoopStates
  <2>6. Handling' = Handling
    BY <1>0, <2>1 DEF Handling
  <2>7. Accounted'
    BY <2>1, <2>6 DEF SlotsInv, Accounted
  <2>8. \A m \in Loop : loop'[m] = "waiting" <=> m = l \/ loop[m] = "waiting"
    BY <1>0, <2>1
  <2>9. \A i \in 1..n : waiters[i] # l
    BY <1>0 DEF SlotsInv, Queued
  <2>10. Queued'
    <3> DEFINE old(i) == IF i < k THEN i ELSE i - 1
    <3>1. \A i \in 1..(n + 1) : i # k => old(i) \in 1..n /\ waiters'[i] = waiters[old(i)]
      <4> SUFFICES ASSUME NEW i \in 1..(n + 1), i # k
                   PROVE  old(i) \in 1..n /\ waiters'[i] = waiters[old(i)]
        OBVIOUS
      <4>1. CASE i < k
        <5>1. i \in 1..(k - 1) /\ i \in 1..n
          BY <2>3, <4>1
        <5> QED
          BY <2>4, <4>1, <5>1
      <4>2. CASE ~(i < k)
        <5>1. i \in (k + 1)..(n + 1) /\ i - 1 \in 1..n
          BY <2>3, <4>2
        <5> QED
          BY <2>4, <4>2, <5>1
      <4> QED
        BY <4>1, <4>2
    <3>2. \A i, j \in 1..(n + 1) : i # k /\ j # k /\ old(i) = old(j) => i = j
      BY <2>3
    <3>3. \A j \in 1..n : \E i \in 1..(n + 1) : i # k /\ old(i) = j
      <4> SUFFICES ASSUME NEW j \in 1..n PROVE \E i \in 1..(n + 1) : i # k /\ old(i) = j
        OBVIOUS
      <4>1. CASE j < k
        <5>1. j \in 1..(n + 1) /\ j # k /\ old(j) = j
          BY <2>3, <4>1
        <5> QED
          BY <5>1
      <4>2. CASE ~(j < k)
        <5>1. j + 1 \in 1..(n + 1) /\ j + 1 # k /\ old(j + 1) = j
          BY <2>3, <4>2
        <5> QED
          BY <5>1
      <4> QED
        BY <4>1, <4>2
    <3> HIDE DEF old, n
    <3>4. \A i, j \in 1..(n + 1) : waiters'[i] = waiters'[j] => i = j
      <4> SUFFICES ASSUME NEW i \in 1..(n + 1), NEW j \in 1..(n + 1), waiters'[i] = waiters'[j]
                   PROVE  i = j
        OBVIOUS
      <4>1. CASE i = k \/ j = k
        BY <2>4, <2>9, <3>1, <4>1
      <4>2. CASE i # k /\ j # k
        BY <3>1, <3>2, <4>2 DEF SlotsInv, Queued, n
      <4> QED
        BY <4>1, <4>2
    <3>5. \A m \in Loop : loop'[m] = "waiting" <=> \E i \in 1..(n + 1) : waiters'[i] = m
      <4> SUFFICES ASSUME NEW m \in Loop
                   PROVE  loop'[m] = "waiting" <=> \E i \in 1..(n + 1) : waiters'[i] = m
        OBVIOUS
      <4>1. loop[m] = "waiting" <=> \E j \in 1..n : waiters[j] = m
        BY DEF SlotsInv, Queued, n
      <4>2. k \in 1..(n + 1) /\ waiters'[k] = l
        BY <2>2, <2>4
      <4> QED
        BY <2>8, <3>1, <3>3, <4>1, <4>2
    <3>6. active' = Slots
      BY <1>0, <1>2, <2>1
    <3> QED
      BY <2>4, <3>4, <3>5, <3>6 DEF Queued, n
  <2>11. LastInQueue'
    <3>1. \A m \in Loop : loop'[m] # "waiting" => overtaken'[m] = 0
      BY <1>0, <2>8 DEF SlotsInv, LastInQueue
    <3>2. ASSUME NEW m \in Loop, LastPriority(m), loop'[m] = "waiting"
          PROVE  waiters'[n + 1] = m /\ overtaken'[m] <= grants'
      <4>1. CASE m = l
        <5>1. waiters'[n + 1] = m
          BY <2>2, <2>4, <3>2, <4>1
        <5>2. overtaken[m] = 0 /\ grants >= 0
          BY <1>0, <4>1 DEF SlotsInv, LastInQueue, SlotsTyped
        <5> QED
          BY <1>0, <5>1, <5>2
      <4>2. CASE m # l
        <5>1. loop[m] = "waiting" /\ waiters[n] = m /\ overtaken[m] <= grants
          BY <2>8, <3>2, <4>2 DEF SlotsInv, LastInQueue
        <5>2. waiters # << >>
          BY <1>0, <5>1 DEF SlotsInv, Queued
        <5>3. k <= n
          BY <2>2, <3>2, <4>2, <5>1, <5>2
        <5>4. n + 1 \in (k + 1)..(n + 1) /\ n + 1 - 1 = n
          BY <2>3, <5>3
        <5>5. waiters'[n + 1] = waiters[n]
          BY <2>4, <5>4
        <5> QED
          BY <1>0, <5>1, <5>5
      <4> QED
        BY <4>1, <4>2
    <3> QED
      BY <2>4, <3>1, <3>2 DEF LastInQueue, LastPriority
  <2> QED
    BY <2>5, <2>7, <2>10, <2>11 DEF SlotsInv
<1> QED
  BY <1>1, <1>2

LEMMA SlotReceiveFailsStep ==
    ASSUME SlotsInv, NEW l \in Loop, Pool!ReceiveFails(l) PROVE SlotsInv'
BY ElsewhereStep DEF Pool!ReceiveFails, LoopStates, SlotsInv, SlotsTyped

LEMMA PollAgainStep ==
    ASSUME SlotsInv, NEW l \in Loop, Pool!PollAgain(l) PROVE SlotsInv'
BY ElsewhereStep DEF Pool!PollAgain, LoopStates, SlotsInv, SlotsTyped

(* A slot freed while nobody waits.                                        *)
LEMMA FreedStep ==
    ASSUME SlotsInv, NEW l \in Loop, loop[l] = "handling",
           NEW after \in Pool!Afterwards, waiters = << >>, active' = active - 1,
           loop' = [loop EXCEPT ![l] = after], UNCHANGED <<running, waiters, grants, overtaken>>
    PROVE  SlotsInv'
<1>1. after \in LoopStates \ {"waiting", "handling"}
  BY DEF Pool!Afterwards, LoopStates
<1>2. loop \in [Loop -> LoopStates] /\ active \in 0..Slots /\ Slots \in Nat
  BY SlotsAssumption DEF SlotsInv, SlotsTyped
<1>3. Handling' = Handling \ {l} /\ l \in Handling
  BY <1>1, <1>2 DEF Handling
<1>4. active' = Cardinality(Handling') /\ Cardinality(Handling') \in Nat
  <2>1. IsFiniteSet(Handling')
    BY <1>3, HandlingFinite, FS_RemoveElement
  <2>2. Cardinality(Handling') \in Nat
    BY <2>1, FS_CardinalityType
  <2> QED
    BY <1>3, <2>2, HandlingFinite, FS_RemoveElement DEF SlotsInv, Accounted
<1>5. SlotsTyped'
  BY <1>1, <1>2, <1>4 DEF SlotsInv, SlotsTyped
<1>6. \A m \in Loop : loop'[m] = "waiting" <=> loop[m] = "waiting"
  BY <1>1, <1>2
<1>7. Queued' /\ LastInQueue'
  BY <1>6 DEF SlotsInv, Queued, LastInQueue
<1> QED
  BY <1>4, <1>5, <1>7 DEF SlotsInv, Accounted

(* A slot that goes to a waiter: to the last one when it is its turn.      *)
LEMMA GrantStep ==
    ASSUME SlotsInv, NEW l \in Loop, loop[l] = "handling",
           NEW after \in Pool!Afterwards, waiters # << >>,
           Pool!Grant(l, waiters[Pool!Served], after),
           waiters' = Pool!WaitersWithout(Pool!Served)
    PROVE  SlotsInv'
<1> DEFINE n == Len(waiters)
           k == Pool!Served
           next == waiters[k]
<1>1. after \in LoopStates \ {"waiting", "handling"}
  BY DEF Pool!Afterwards, LoopStates
<1>2. /\ loop \in [Loop -> LoopStates] /\ active \in 0..Slots /\ Slots \in Nat
      /\ waiters \in Seq(Loop) /\ n \in Nat \ {0} /\ Period \in Nat \ {0}
      /\ grants \in 0..(Period - 1) /\ overtaken \in [Loop -> 0..Period]
  BY SlotsAssumption DEF SlotsInv, SlotsTyped
<1>3. k \in 1..n /\ k \in {1, n} /\ (grants = Period - 1 => k = n)
  BY <1>2 DEF Pool!Served, Pool!StarvedTurn
<1> HIDE DEF k
<1>4. next \in Loop /\ loop[next] = "waiting" /\ next # l
  <2>1. next \in Loop
    BY <1>2, <1>3, ElementOfSeq
  <2>2. loop[next] = "waiting"
    BY <1>3, <2>1 DEF SlotsInv, Queued
  <2> QED
    BY <2>1, <2>2
<1>5. /\ loop' = [loop EXCEPT ![l] = after, ![next] = "handling"]
      /\ grants' = (grants + 1) % Period
      /\ overtaken' = [m \in Loop |->
                       IF loop[m] = "waiting" /\ m # next /\ overtaken[m] < Period
                       THEN overtaken[m] + 1
                       ELSE IF m = next THEN 0 ELSE overtaken[m]]
      /\ UNCHANGED <<running, active>>
  BY DEF Pool!Grant, k
<1>6. /\ waiters' \in Seq(Loop) /\ Len(waiters') = n - 1
      /\ \A i \in 1..(k - 1) : waiters'[i] = waiters[i]
      /\ \A i \in k..(n - 1) : waiters'[i] = waiters[i + 1]
  BY <1>2, <1>3, Removed DEF Pool!WaitersWithout, k
<1> HIDE DEF next
<1>7. grants' \in 0..(Period - 1) /\ (grants # Period - 1 => grants' = grants + 1)
  <2>1. CASE grants = Period - 1
    <3>1. grants + 1 = Period /\ Period % Period = 0
      BY <1>2, <2>1
    <3> QED
      BY <1>2, <1>5, <2>1, <3>1
  <2>2. CASE grants # Period - 1
    <3>1. grants + 1 \in 0..(Period - 1)
      BY <1>2, <2>2
    <3>2. (grants + 1) % Period = grants + 1
      BY <1>2, <3>1, Modulo
    <3> QED
      BY <1>5, <3>1, <3>2
  <2> QED
    BY <2>1, <2>2
<1>8. loop'[l] = after /\ loop'[next] = "handling"
      /\ \A m \in Loop : m # l /\ m # next => loop'[m] = loop[m]
  BY <1>2, <1>4, <1>5
<1>9. SlotsTyped'
  <2>1. loop' \in [Loop -> LoopStates]
    BY <1>1, <1>2, <1>5 DEF LoopStates
  <2>2. overtaken' \in [Loop -> 0..Period]
    <3>1. ASSUME NEW m \in Loop
          PROVE  (IF loop[m] = "waiting" /\ m # next /\ overtaken[m] < Period
                  THEN overtaken[m] + 1
                  ELSE IF m = next THEN 0 ELSE overtaken[m]) \in 0..Period
      BY <1>2
    <3> QED
      BY <1>5, <3>1
  <2> QED
    BY <1>5, <1>6, <1>7, <2>1, <2>2 DEF SlotsInv, SlotsTyped
<1>10. Accounted'
  <2>1. Handling' = (Handling \ {l}) \cup {next} /\ l \in Handling /\ next \notin Handling
    BY <1>1, <1>4, <1>8 DEF Handling
  <2>2. /\ IsFiniteSet(Handling \ {l})
        /\ Cardinality(Handling \ {l}) = Cardinality(Handling) - 1
    BY <2>1, HandlingFinite, FS_RemoveElement
  <2>3. Cardinality(Handling') = Cardinality(Handling) - 1 + 1
    BY <2>1, <2>2, FS_AddElement
  <2> QED
    BY <1>5, <2>3, HandlingFinite DEF SlotsInv, Accounted
<1>11. \A m \in Loop : loop'[m] = "waiting" <=> loop[m] = "waiting" /\ m # next
  BY <1>1, <1>4, <1>8
<1>12. Queued'
  <2> DEFINE old(i) == IF i < k THEN i ELSE i + 1
  <2>1. \A i \in 1..(n - 1) : old(i) \in 1..n /\ old(i) # k /\ waiters'[i] = waiters[old(i)]
    <3> SUFFICES ASSUME NEW i \in 1..(n - 1)
                 PROVE  old(i) \in 1..n /\ old(i) # k /\ waiters'[i] = waiters[old(i)]
      OBVIOUS
    <3>1. CASE i < k
      <4>1. i \in 1..(k - 1) /\ i \in 1..n
        BY <1>2, <1>3, <3>1
      <4> QED
        BY <1>6, <3>1, <4>1
    <3>2. CASE ~(i < k)
      <4>1. i \in k..(n - 1) /\ i + 1 \in 1..n /\ i + 1 # k
        BY <1>2, <1>3, <3>2
      <4> QED
        BY <1>6, <3>2, <4>1
    <3> QED
      BY <3>1, <3>2
  <2>2. \A i, j \in 1..(n - 1) : old(i) = old(j) => i = j
    BY <1>2, <1>3
  <2>3. \A j \in 1..n : j # k => \E i \in 1..(n - 1) : old(i) = j
    <3> SUFFICES ASSUME NEW j \in 1..n, j # k PROVE \E i \in 1..(n - 1) : old(i) = j
      OBVIOUS
    <3>1. CASE j < k
      <4>1. j \in 1..(n - 1) /\ old(j) = j
        BY <1>2, <1>3, <3>1
      <4> QED
        BY <4>1
    <3>2. CASE ~(j < k)
      <4>1. j - 1 \in 1..(n - 1) /\ old(j - 1) = j
        BY <1>2, <1>3, <3>2
      <4> QED
        BY <4>1
    <3> QED
      BY <3>1, <3>2
  <2> HIDE DEF old, n
  <2>4. \A i, j \in 1..(n - 1) : waiters'[i] = waiters'[j] => i = j
    BY <2>1, <2>2 DEF SlotsInv, Queued, n
  <2>5. \A m \in Loop : loop'[m] = "waiting" <=> \E i \in 1..(n - 1) : waiters'[i] = m
    <3> SUFFICES ASSUME NEW m \in Loop
                 PROVE  loop'[m] = "waiting" <=> \E i \in 1..(n - 1) : waiters'[i] = m
      OBVIOUS
    <3>1. loop[m] = "waiting" <=> \E j \in 1..n : waiters[j] = m
      BY DEF SlotsInv, Queued, n
    <3>2. \A j \in 1..n : waiters[j] = next <=> j = k
      BY <1>3 DEF SlotsInv, Queued, n, next
    <3> QED
      BY <1>11, <2>1, <2>3, <3>1, <3>2
  <2>6. active' = Slots
    BY <1>5 DEF SlotsInv, Queued
  <2> QED
    BY <1>6, <2>4, <2>5, <2>6 DEF Queued, n
<1>13. LastInQueue'
  <2>1. ASSUME NEW m \in Loop, loop'[m] # "waiting" PROVE overtaken'[m] = 0
    BY <1>5, <1>11, <2>1 DEF SlotsInv, LastInQueue
  <2>2. ASSUME NEW m \in Loop, LastPriority(m), loop'[m] = "waiting"
        PROVE  waiters'[n - 1] = m /\ overtaken'[m] <= grants'
    <3>1. loop[m] = "waiting" /\ m # next /\ waiters[n] = m /\ overtaken[m] <= grants
      BY <1>11, <2>2 DEF SlotsInv, LastInQueue
    <3>2. k # n
      BY <3>1 DEF next
    <3>3. n - 1 \in k..(n - 1) /\ n - 1 + 1 = n
      BY <1>2, <1>3, <3>2
    <3>4. waiters'[n - 1] = m
      BY <1>6, <3>1, <3>3
    <3>5. grants' = grants + 1
      BY <1>3, <1>7, <3>2
    <3>6. overtaken'[m] <= overtaken[m] + 1 /\ overtaken[m] \in 0..Period
      BY <1>2, <1>5, <3>1
    <3>7. overtaken'[m] \in 0..Period
      BY <1>9 DEF SlotsTyped
    <3> QED
      BY <1>2, <3>1, <3>4, <3>5, <3>6, <3>7
  <2> QED
    BY <1>6, <2>1, <2>2 DEF LastInQueue, LastPriority
<1> QED
  BY <1>9, <1>10, <1>12, <1>13 DEF SlotsInv

LEMMA ReleaseStep ==
    ASSUME SlotsInv, NEW l \in Loop, Pool!Release(l) PROVE SlotsInv'
<1>1. PICK after \in Pool!Afterwards :
        \/ /\ waiters = << >>
           /\ active' = active - 1
           /\ loop' = [loop EXCEPT ![l] = after]
           /\ UNCHANGED <<running, waiters, grants, overtaken>>
        \/ /\ waiters # << >>
           /\ Pool!Grant(l, waiters[Pool!Served], after)
           /\ waiters' = Pool!WaitersWithout(Pool!Served)
  BY DEF Pool!Release
<1>2. loop[l] = "handling"
  BY DEF Pool!Release
<1> QED
  BY <1>1, <1>2, FreedStep, GrantStep

LEMMA QuietSlots ==
    ASSUME SlotsInv, running' \in BOOLEAN, UNCHANGED <<loop, active, waiters, grants, overtaken>>
    PROVE  SlotsInv'
BY DEF SlotsInv, SlotsTyped, Queued, Accounted, LastInQueue, Handling, LastPriority

LEMMA StepSlots == ASSUME SlotsInv, [Pool!Next]_(Pool!vars) PROVE SlotsInv'
<1>1. CASE \E l \in Loop : Pool!Receive(l)
  BY <1>1, SlotReceivedStep
<1>2. CASE \E l \in Loop : Pool!ReceiveFails(l)
  BY <1>2, SlotReceiveFailsStep
<1>3. CASE \E l \in Loop : Pool!PollAgain(l)
  BY <1>3, PollAgainStep
<1>4. CASE \E l \in Loop : Pool!Release(l)
  BY <1>4, ReleaseStep
<1>5. CASE Pool!Shutdown \/ UNCHANGED Pool!vars
  <2>1. running' \in BOOLEAN /\ UNCHANGED <<loop, active, waiters, grants, overtaken>>
    BY <1>5 DEF Pool!Shutdown, Pool!vars, SlotsInv, SlotsTyped
  <2> QED
    BY <2>1, QuietSlots
<1> QED
  BY <1>1, <1>2, <1>3, <1>4, <1>5 DEF Pool!Next

(* The queue of waiters lists each of them once, so they are as many.      *)
LEMMA WaitersCounted ==
    ASSUME SlotsInv
    PROVE  LET W == {l \in Loop : loop[l] = "waiting"} IN
           /\ {waiters[i] : i \in DOMAIN waiters} = W
           /\ Len(waiters) = Cardinality(W)
<1> DEFINE n == Len(waiters)
           W == {l \in Loop : loop[l] = "waiting"}
           f == [i \in 1..n |-> waiters[i]]
<1>1. n \in Nat /\ DOMAIN waiters = 1..n /\ \A i \in 1..n : waiters[i] \in Loop
  BY DEF SlotsInv, SlotsTyped
<1>2. \A i \in 1..n : waiters[i] \in W
  BY <1>1 DEF SlotsInv, Queued
<1>3. \A l \in W : \E i \in 1..n : waiters[i] = l
  BY DEF SlotsInv, Queued
<1>4. f \in Bijection(1..n, W)
  <2>1. f \in [1..n -> W]
    BY <1>2
  <2>2. \A i, j \in 1..n : f[i] = f[j] => i = j
    BY DEF SlotsInv, Queued
  <2>3. \A l \in W : \E i \in 1..n : f[i] = l
    BY <1>3
  <2> QED
    BY <2>1, <2>2, <2>3, Fun_IsBij
<1> HIDE DEF f
<1>5. ExistsBijection(1..n, W)
  BY <1>4 DEF ExistsBijection
<1>6. IsFiniteSet(1..n) /\ Cardinality(1..n) = n
  BY <1>1, FS_Interval
<1>7. Cardinality(W) = n
  BY <1>5, <1>6, FS_Bijection
<1> QED
  BY <1>1, <1>2, <1>3, <1>7

LEMMA SlotsInvHolds == Pool!Spec => []SlotsInv
<1>1. Pool!Init => SlotsInv
  BY InitSlots
<1>2. SlotsInv /\ [Pool!Next]_(Pool!vars) => SlotsInv'
  BY StepSlots
<1> QED
  BY <1>1, <1>2, PTL DEF Pool!Spec

(* Whatever handle ends with, its slot is passed on or freed, once, and no *)
(* loop waits while a slot is free.                                        *)
THEOREM NoSlotLeaks == Pool!Spec => []SlotsAccounted
<1>1. ASSUME SlotsInv PROVE SlotsAccounted
  <2>1. SlotTypes
    BY <1>1, WaitersCounted DEF SlotsInv, SlotsTyped, SlotTypes
  <2>2. active = Cardinality({l \in Loop : loop[l] = "handling"})
    BY <1>1 DEF SlotsInv, Accounted, Handling
  <2> QED
    BY <1>1, <2>1, <2>2 DEF SlotsInv, Queued, SlotsAccounted
<1> QED
  BY <1>1, SlotsInvHolds, PTL

(* With any number of loops, slots and priorities, a loop that waits alone *)
(* in the last priority sees fewer than STARVATION_GRANT_PERIOD grants to  *)
(* others before its own.                                                  *)
THEOREM LastIsServed == Pool!Spec => []LastServedWithinPeriod
<1>1. ASSUME SlotsInv PROVE LastServedWithinPeriod
  <2> SUFFICES ASSUME NEW l \in Loop, LastPriority(l), loop[l] = "waiting"
               PROVE  overtaken[l] < Period
    BY DEF LastServedWithinPeriod
  <2>1. overtaken[l] <= grants /\ grants \in 0..(Period - 1) /\ overtaken[l] \in 0..Period
    BY <1>1 DEF SlotsInv, LastInQueue, SlotsTyped
  <2> QED
    BY <2>1, SlotsAssumption
<1> QED
  BY <1>1, SlotsInvHolds, PTL
=============================================================================
