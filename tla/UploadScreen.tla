------------------------------ MODULE UploadScreen ------------------------------
(***************************************************************************)
(* A student hands in documents at a shop (ShopLanding.tsx): the page      *)
(* loads the shop, posts the chosen files, and waits for the conversion of *)
(* the document they make, told by a push or by a poll every 2.5 seconds.  *)
(* Posts and polls may be late or reordered, these and pushes lost; a      *)
(* conversion may fail for good, be tried again after the page was told it *)
(* failed, or die with its worker.  (FileRetention has the races of the    *)
(* conversion with itself and with deletion.)                              *)
(***************************************************************************)
EXTENDS Integers, FiniteSets

CONSTANTS
  Uploads,     \* bound: the documents the student hands in, 1 .. n
  MaxTries,    \* deliveries of a convert job (attempts of convertQueue)
  MaxRetries,  \* MAX_AUTO_RETRIES
  MaxPolls     \* bound: polls under way that differ

VARIABLES
  document,      \* document[u]: the row of the document, its job in the queue
  landing,  \* the page: what it shows, the document it waits for
  posts,    \* uploads under way
  polls     \* polls under way

uploadVars == <<document, landing, posts, polls>>

-----------------------------------------------------------------------------
(* What may be uploaded, and how its conversion may end. *)

Kinds == {"pdf", "docx", "jpg", "png"}

(* A file: what its bytes are, its extension, the type the browser declares.  *)
Sources ==
  [bytes : Kinds \cup {"zip", "unknown"}, extension : Kinds \cup {"other"},
   declared : Kinds \cup {"zip", "octet-stream", "other"}]

(* The declared types that go with a kind. *)
DeclaredFor(kind) == {kind, "octet-stream"} \cup (IF kind = "docx" THEN {"zip"} ELSE {})

(* Bytes, extension and declared type agree on one of the kinds. *)
ValidType(s) ==
  s.bytes \in Kinds /\ s.extension = s.bytes /\ s.declared \in DeclaredFor(s.bytes)

WrongTypes == {s \in Sources : ~ValidType(s)}

(* pdfToNormalized, imageToPdf, docxToPdf: the codes each may throw. *)
PdfErrors == {"FILE_ENCRYPTED", "FILE_CORRUPT", "TOO_MANY_PAGES"}
ImageErrors == {"FILE_CORRUPT", "CONVERSION_FAILED"}
DocxErrors ==
  {"FILE_UNSUPPORTED", "CONVERSION_TIMEOUT", "FILE_CORRUPT", "CONVERSION_FAILED"} \cup PdfErrors

ErrorsOf(kind) ==
  CASE kind = "pdf" -> PdfErrors
    [] kind \in {"jpg", "png"} -> ImageErrors
    [] OTHER -> DocxErrors

(* Besides, the store may fail, and the merged document be too long. *)
ConversionErrors == UNION {ErrorsOf(k) : k \in Kinds} \cup {"CONVERSION_FAILED", "TOO_MANY_PAGES"}

IsPermanent(code) == code \notin {"CONVERSION_FAILED", "CONVERSION_TIMEOUT"}

-----------------------------------------------------------------------------
(* Data. *)

Documents ==
  [status : {"none", "uploaded", "converting", "ready", "failed", "deleted"},
   job : {"none", "queued", "running", "over", "abandoned"},
   tries : 0 .. MaxTries, stalled : BOOLEAN]

NoDocument == [status |-> "none", job |-> "none", tries |-> 0, stalled |-> FALSE]

(* (What the queue counted of a job that is over means nothing.)              *)
Ended(status, job) == [status |-> status, job |-> job, tries |-> 0, stalled |-> FALSE]

(* heard: the visit of the page that asked has not ended. *)
Asking(u) == [of |-> u, answer |-> "none", heard |-> TRUE]

Away == [page |-> "away", retries |-> 0, open |-> FALSE, waits |-> {}, error |-> FALSE]
OptionsPage == [Away EXCEPT !.page = "options"]

(* What was asked goes on when the visit ends; the answer to an upload comes   *)
(* to nothing then, that to a poll may not.                                   *)
Unheeded(asked) == {[a EXCEPT !.heard = FALSE] : a \in asked}
UnheededPosts == Unheeded({p \in posts : p.answer = "none"})

-----------------------------------------------------------------------------
(* The page loads the shop (useResource). *)

OpenLanding ==
  /\ landing.page \in {"away", "options"}
  /\ landing' = [Away EXCEPT !.page = "loading"]
  /\ UNCHANGED <<document, posts, polls>>

(* A failure worth a retry is retried on its own, three times.                *)
AfterFailure(retryable) ==
  IF retryable /\ landing.retries < MaxRetries
  THEN [landing EXCEPT !.page = "retrying", !.retries = @ + 1]
  ELSE [landing EXCEPT !.page = "error"]

(* A shop, no such shop, or a failure: a request is given up after a minute.  *)
ShopAnswered ==
  /\ landing.page = "loading"
  /\ \/ \E open \in BOOLEAN : landing' = [Away EXCEPT !.page = "shop", !.open = open]
     \/ landing' = [landing EXCEPT !.page = "no shop"]
     \/ \E retryable \in BOOLEAN : landing' = AfterFailure(retryable)
  /\ UNCHANGED <<document, posts, polls>>

RetryTimer ==
  /\ landing.page = "retrying"
  /\ landing' = [landing EXCEPT !.page = "loading"]
  /\ UNCHANGED <<document, posts, polls>>

RetryButton ==
  /\ landing.page = "error"
  /\ landing' = [landing EXCEPT !.page = "loading", !.retries = 0]
  /\ UNCHANGED <<document, posts, polls>>

(* To another page of the app, or closed; nothing stops what is under way.    *)
LeaveLanding ==
  /\ landing.page # "away"
  /\ landing' = Away
  /\ posts' = UnheededPosts
  /\ polls' \in {Unheeded(polls), {}}
  /\ UNCHANGED document

-----------------------------------------------------------------------------
(* Choosing and posting files. *)

(* The panel with the two buttons, which also takes dropped files, is there   *)
(* unless a document is being prepared.                                       *)
TakesFiles == landing.page = "shop" /\ landing.open /\ landing.waits = {}

(* (Dropping files is possible while an upload is under way.)                 *)
ChooseFiles(u) ==
  /\ TakesFiles
  /\ document[u] = NoDocument /\ ~\E p \in posts : p.of = u
  /\ \A v \in Uploads : v < u => document[v] # NoDocument \/ \E p \in posts : p.of = v
  /\ landing' = [landing EXCEPT !.error = FALSE]
  /\ posts' = posts \cup {Asking(u)}
  /\ UNCHANGED <<document, polls>>

AnswerTo(p, answer) == IF p.heard THEN {[p EXCEPT !.answer = answer]} ELSE {}

(* POST /files: refused for a wrong type, a shop unknown or blocked; or the   *)
(* row is made, and the conversion enqueued unless that fails.                *)
ServePost(p) ==
  /\ p.answer = "none"
  /\ \/ /\ WrongTypes # {}
        /\ posts' = (posts \ {p}) \cup AnswerTo(p, "failed")
        /\ UNCHANGED document
     \/ /\ posts' = (posts \ {p}) \cup AnswerTo(p, "created")
        /\ document' = [document EXCEPT ![p.of].status = "uploaded", ![p.of].job = "queued"]
     \/ /\ posts' = (posts \ {p}) \cup AnswerTo(p, "failed")
        /\ document' = [document EXCEPT ![p.of].status = "uploaded"]
  /\ UNCHANGED <<landing, polls>>

(* The page waits for the document, a newer one than before if files were     *)
(* dropped twice; an answer that is lost is an error.                         *)
PostAnswered(p, lost) ==
  /\ p.answer # "none"
  /\ posts' = posts \ {p}
  /\ landing' =
       IF p.answer = "created" /\ ~lost THEN [landing EXCEPT !.waits = {p.of}]
       ELSE [landing EXCEPT !.error = TRUE]
  /\ UNCHANGED <<document, polls>>

-----------------------------------------------------------------------------
(* The convert job, and the pushes to the page. *)

(* Fault: a failure leaves the page as it is. *)
InformedReadyOnly(status, heard) ==
  CASE status = "ready" -> OptionsPage
    [] OTHER -> landing

(* What an answer makes of the page: the options page opens even if the       *)
(* student has gone elsewhere in the app; a failure only changes the visit    *)
(* that asked, whatever that waits for by now.                                *)
Informed(status, heard) ==
  CASE status = "ready" -> OptionsPage
    [] status = "failed" /\ heard -> [landing EXCEPT !.waits = {}, !.error = TRUE]
    [] OTHER -> landing

(* Leaving for the options page ends the visit. *)
AfterVisit(status, rest) ==
  IF status = "ready" THEN posts' = UnheededPosts /\ polls' = Unheeded(rest)
  ELSE posts' = posts /\ polls' = rest

(* A push, file:ready or file:failed, is lost or heeded by a page that waits  *)
(* for just this document.  (A late one does what the answer to a poll does.) *)
Push(u, event) ==
  \/ UNCHANGED <<landing, posts, polls>>
  \/ /\ landing.waits = {u}
     /\ landing' = Informed(event, TRUE)
     /\ AfterVisit(event, polls)


PickUpConversion(u) ==
  /\ document[u].job = "queued"
  /\ document' = [document EXCEPT ![u] =
       IF @.status = "deleted" THEN Ended("deleted", "over")
       ELSE [@ EXCEPT !.job = "running", !.status = "converting"]]
  /\ UNCHANGED <<landing, posts, polls>>

ConverterSucceeds(u) ==
  /\ document[u].job = "running"
  /\ document' = [document EXCEPT ![u] = Ended("ready", "over")]
  /\ Push(u, "ready")

LastTry(u) == document[u].tries + 1 = MaxTries

(* The student is told at once, also when the queue tries again.              *)
ConverterFails(u) ==
  /\ document[u].job = "running"
  /\ \E code \in ConversionErrors :
       document' = [document EXCEPT ![u] =
         IF IsPermanent(code) \/ LastTry(u) THEN Ended("failed", "over")
         ELSE [@ EXCEPT !.status = "failed", !.job = "queued", !.tries = @ + 1]]
  /\ Push(u, "failed")

(* The database fails before the conversion or when its failure is recorded.  *)
ConverterErrs(u) ==
  /\ document[u].job \in {"queued", "running"}
  /\ document' = [document EXCEPT ![u] =
       IF LastTry(u) THEN Ended(@.status, "abandoned")
       ELSE [@ EXCEPT !.job = "queued", !.tries = @ + 1]]
  /\ UNCHANGED <<landing, posts, polls>>

(* The queue delivers a stalled job once more, and gives a second one up.     *)
ConverterDies(u) ==
  /\ document[u].job = "running"
  /\ document' = [document EXCEPT ![u] =
       IF @.stalled THEN Ended(@.status, "abandoned")
       ELSE [@ EXCEPT !.job = "queued", !.stalled = TRUE]]
  /\ UNCHANGED <<landing, posts, polls>>

(* The deletion clock of the upload runs out. *)
DeleteDocument(u) ==
  /\ document[u].status \notin {"none", "deleted"}
  /\ document' = [document EXCEPT ![u].status = "deleted"]
  /\ UNCHANGED <<landing, posts, polls>>

-----------------------------------------------------------------------------
(* The page learns how the conversion ended (useFileConversionRedirect). *)

PollTick(u) ==
  /\ landing.waits = {u}
  /\ Cardinality(polls) < MaxPolls
  /\ polls' = polls \cup {Asking(u)}
  /\ UNCHANGED <<document, landing, posts>>

(* The statuses of GET /files/:id that the page heeds. *)
StatusTold(u) == IF document[u].status \in {"ready", "failed"} THEN document[u].status ELSE "other"

(* GET /files/:id *)
ServePoll(p) ==
  /\ p.answer = "none"
  /\ polls' = (polls \ {p}) \cup {[p EXCEPT !.answer = StatusTold(p.of)]}
  /\ UNCHANGED <<document, landing, posts>>

PollAnswered(p) ==
  /\ p.answer # "none"
  /\ landing' = Informed(p.answer, p.heard)
  /\ AfterVisit(p.answer, polls \ {p})
  /\ UNCHANGED document

(* "keep polling" *)
PollLost(p) ==
  /\ p.answer # "none"
  /\ polls' = polls \ {p}
  /\ UNCHANGED <<document, landing, posts>>

-----------------------------------------------------------------------------
UploadRest ==
  /\ document = [u \in Uploads |-> NoDocument]
  /\ landing = Away
  /\ posts = {} /\ polls = {}

UploadNext ==
  \/ OpenLanding \/ ShopAnswered \/ RetryTimer \/ RetryButton \/ LeaveLanding
  \/ \E u \in Uploads :
       \/ ChooseFiles(u) \/ PollTick(u)
       \/ PickUpConversion(u) \/ ConverterSucceeds(u) \/ ConverterFails(u)
       \/ ConverterErrs(u) \/ ConverterDies(u) \/ DeleteDocument(u)
  \/ \E p \in posts : ServePost(p) \/ \E lost \in BOOLEAN : PostAnswered(p, lost)
  \/ \E p \in polls : ServePoll(p) \/ PollAnswered(p) \/ PollLost(p)

(* Timers fire, requests end, workers work, and not every answer to a poll is *)
(* lost; a push may always be.                                                *)
UploadFairness ==
  /\ WF_uploadVars(ShopAnswered) /\ WF_uploadVars(RetryTimer)
  /\ \A u \in Uploads :
       /\ WF_uploadVars(PollTick(u))
       /\ WF_uploadVars(PickUpConversion(u))
       /\ WF_uploadVars(ConverterSucceeds(u) \/ ConverterFails(u))
  /\ WF_uploadVars(\E p \in polls : ServePoll(p))
  /\ SF_uploadVars(\E p \in polls : PollAnswered(p))

-----------------------------------------------------------------------------
UploadTypeOK ==
  /\ document \in [Uploads -> Documents]
  /\ landing.page \in {"away", "loading", "retrying", "error", "no shop", "shop", "options"}
  /\ landing.retries \in 0 .. MaxRetries
  /\ landing.waits \subseteq Uploads /\ Cardinality(landing.waits) <= 1
  /\ Cardinality(polls) <= MaxPolls

Waiting == landing.page \in {"loading", "retrying"} \/ landing.waits # {}

GivenUp(u) == document[u].status = "deleted" \/ document[u].job = "abandoned"

(* No student looks at "Loading" or "preparing preview" for ever: whatever    *)
(* pushes, posts and answers are lost, overtake each other or speak of an     *)
(* earlier document, the page ends up with a shop, an error or the options.   *)
(* Unless the document is deleted while the page waits, or its job is given   *)
(* up by the queue: the poll knows neither (ShopLanding.tsx:57-70).           *)
StudentIsAnswered ==
  []<>(~Waiting) \/ <>(\E u \in Uploads : GivenUp(u))
=============================================================================
