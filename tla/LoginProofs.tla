---------------------------- MODULE LoginProofs ------------------------------
(***************************************************************************)
(* Proofs about Login, for any tokens and logs and any number of requests  *)
(* and of failures.                                                        *)
(*                                                                         *)
(* AuthenticatedByResponse rests on IInv: a login record and an outcome    *)
(* that is about to be written both point back at the submission whose     *)
(* words they carry (ChallengesFounded, OutcomesFounded), so it does not   *)
(* matter what has happened to the record between reading and writing it.  *)
(*                                                                         *)
(* RecordedBeforeChallenge and FirstSeenStable rest on RInv besides: what  *)
(* a submission knows of the slots of its log in each phase (AllKnow), and *)
(* that what it is about to write concerns no log that a token or another  *)
(* request relies on (AllApart). They stay true only because no other      *)
(* submission writes between its reads and its writes (OneRecords), which  *)
(* is what MaxRecording <= 1 says.                                         *)
(***************************************************************************)
EXTENDS Login, FiniteSetTheorems, TLAPS

\* The digests of the events submitted.
Digests == UNION {{kel.events[x].d : x \in DOMAIN kel.events} : kel \in Kels}

Statuses == {Null, 200, 204, 400, 404, 409, 410, 500}

\* The submissions of a log, in whatever phase.
SubmissionsOf(kel) ==
    [pc : {"reading", "recording", "failed", "issuing", "done"}, status : Statuses,
     token : Tokens, kel : {kel}, pending : SUBSET (DOMAIN kel.events \cup {"login", "words"}),
     seen : [DOMAIN kel.events -> Digests \cup {Null}]]

Submissions == UNION {SubmissionsOf(kel) : kel \in Kels}

\* The records of the session store.
Records ==
    [phase : {"challenged"}, kel : Kels, words : 1 .. MaxRequests, error : {Null, 400, 409}]
    \cup [phase : {"authenticated"}, kel : Kels]

\* The responses to a challenge, in whatever phase.
Responses ==
    [pc : {"lookup", "found", "saving", "done"}, status : Statuses,
     token : Tokens \cup {Null}, kel : Kels, words : 1 .. MaxRequests, record : Records \cup {Null}]

\* A request that submits a log.
IsSubmission(q) == q \in Submissions

\* What a request holds by its phase.
InPhaseOK(q) ==
    /\ q.pc \in {"reading", "recording", "failed"} => q.pending \subseteq DOMAIN q.kel.events
    /\ q.pc \in {"found", "saving"} => q.token \in Tokens
    /\ q.pc = "saving" => q.record \in Records

Typed ==
    /\ requests \in Seq(Submissions \cup Responses)
    /\ Len(requests) <= MaxRequests
    /\ login \in [Tokens -> Records \cup {Null}]
    /\ words \in [1 .. MaxRequests -> Tokens \cup {Null}]
    /\ events \in [Aids -> [SequenceNumbers -> Digests \cup {Null}]]
    /\ \A r \in DOMAIN requests : InPhaseOK(requests[r])

\* Request w is the submission of kel under t.
Founded(w, t, kel) ==
    w \in DOMAIN requests /\ IsSubmission(requests[w]) /\ requests[w].token = t /\ requests[w].kel = kel

\* The challenge of a token was issued for its log, under this token.
ChallengesFounded ==
    \A t \in Tokens : login[t] # Null /\ login[t].phase = "challenged" =>
        Founded(login[t].words, t, login[t].kel)

\* An outcome about to be written is for the log and the token of the submission whose
\* words the response repeats.
OutcomesFounded ==
    \A r \in DOMAIN requests : requests[r].pc = "saving" =>
        LET record == requests[r].record
        IN  /\ Founded(requests[r].words, requests[r].token, record.kel)
            /\ record.phase = "challenged" => record.words = requests[r].words
            /\ record.phase = "authenticated" => Verifies(requests[r].kel, record)

\* AuthenticatedByResponse, with the submission spelled out.
ResponsesFounded ==
    \A t \in Tokens : login[t] # Null /\ login[t].phase = "authenticated" =>
        \E r \in DOMAIN requests :
            /\ requests[r].pc = "done" /\ requests[r].status = 204 /\ requests[r].token = t
            /\ Verifies(requests[r].kel, login[t])
            /\ Founded(requests[r].words, t, login[t].kel)

\* The slot of the event at this position of the log.
Slot(kel, x) == events[kel.aid][kel.events[x].s]

\* The digests that may stand there once the log is recorded: those of the events of
\* the log that state the same number.
OwnAt(kel, x) == EventsAt(kel, kel.events[x].s)

\* The log is recorded.
Recorded(kel) == \A x \in DOMAIN kel.events : Slot(kel, x) \in OwnAt(kel, x)

\* Reading or with writes of events pending.
IsRecording(q) == q.pc = "reading" \/ (q.pc \in {"recording", "failed"} /\ q.pending # {})

\* One submission records at a time.
OneRecords == \A r, q \in Recording : r = q

\* Where a write is pending, every event of the log with that number was found missing,
\* and nothing but the writes of this submission has come there since.
Clear(q) ==
    \A x \in q.pending :
        /\ Slot(q.kel, x) \in {Null} \cup OwnAt(q.kel, x)
        /\ \A y \in DOMAIN q.kel.events : q.kel.events[y].s = q.kel.events[x].s => q.seen[y] = Null

\* What a request knows of the stored events in its phase.
Knows(q) ==
    /\ q.pc = "reading" => \A x \in DOMAIN q.kel.events :
           q.seen[x] = IF x \in q.pending THEN Null ELSE Slot(q.kel, x)
    /\ q.pc \in {"recording", "failed"} => Clear(q)
    /\ q.pc = "recording" => \A x \in DOMAIN q.kel.events \ q.pending : Slot(q.kel, x) \in OwnAt(q.kel, x)

AllKnow == \A r \in DOMAIN requests : Knows(requests[r])

\* The request counts on this log being recorded.
ReliesOn(q, kel) ==
    \/ (q.pc = "issuing" \/ (q.pc = "recording" /\ q.pending = {})) /\ kel = q.kel
    \/ q.pc = "saving" /\ kel = q.record.kel

\* So does a token or a request.
Relied(kel) ==
    \/ \E t \in Tokens : login[t] # Null /\ kel = login[t].kel
    \/ \E r \in DOMAIN requests : ReliesOn(requests[r], kel)

ReliedRecorded == \A kel : Relied(kel) => Recorded(kel)

\* No write of the submission is pending for a number that an event of this log states.
Apart(q, kel) ==
    q.pc \in {"recording", "failed"} =>
        \A x \in q.pending, y \in DOMAIN kel.events :
            kel.aid = q.kel.aid => kel.events[y].s # q.kel.events[x].s

AllApart == \A r \in DOMAIN requests : \A kel : Relied(kel) => Apart(requests[r], kel)

IInv == Typed /\ ChallengesFounded /\ OutcomesFounded /\ ResponsesFounded
RInv == OneRecords /\ AllKnow /\ ReliedRecorded /\ AllApart

-----------------------------------------------------------------------------
(* The requests: what they are and what replacing one keeps. *)

\* A request that is still under way is what its phase says, a submission or a response.
LEMMA RequestTyped ==
    ASSUME Typed, NEW r \in DOMAIN requests
    PROVE  /\ requests[r].kel \in Kels
           /\ InPhaseOK(requests[r])
           /\ requests[r].pc \in {"reading", "recording", "failed", "issuing"} =>
                  requests[r] \in SubmissionsOf(requests[r].kel)
           /\ requests[r].pc \in {"lookup", "found", "saving"} => requests[r] \in Responses
<1>1. requests[r] \in Submissions \cup Responses /\ InPhaseOK(requests[r])
  BY DEF Typed
<1>2. CASE requests[r] \in Submissions
  <2>1. PICK kel \in Kels : requests[r] \in SubmissionsOf(kel)
    BY <1>2 DEF Submissions
  <2>2. requests[r].kel = kel /\ requests[r].pc \notin {"lookup", "found", "saving"}
    BY <2>1 DEF SubmissionsOf
  <2> QED
    BY <1>1, <2>1, <2>2
<1>3. CASE requests[r] \in Responses
  <2>1. /\ requests[r].kel \in Kels
        /\ requests[r].pc \notin {"reading", "recording", "failed", "issuing"}
    BY <1>3 DEF Responses
  <2> QED
    BY <1>1, <1>3, <2>1
<1> QED
  BY <1>1, <1>2, <1>3

\* Replacing one request by a well-formed one keeps the types.
LEMMA Update ==
    ASSUME Typed, NEW r \in DOMAIN requests, NEW q \in Submissions \cup Responses,
           requests' = [requests EXCEPT ![r] = q],
           InPhaseOK(q),
           events' \in [Aids -> [SequenceNumbers -> Digests \cup {Null}]],
           login' \in [Tokens -> Records \cup {Null}],
           words' \in [1 .. MaxRequests -> Tokens \cup {Null}]
    PROVE  /\ Typed'
           /\ DOMAIN requests' = DOMAIN requests
           /\ \A x \in DOMAIN requests : requests'[x] = IF x = r THEN q ELSE requests[x]
<1>1. /\ DOMAIN requests' = DOMAIN requests
      /\ \A x \in DOMAIN requests : requests'[x] = IF x = r THEN q ELSE requests[x]
  OBVIOUS
<1>2. requests' \in Seq(Submissions \cup Responses) /\ Len(requests') = Len(requests)
  BY DEF Typed
<1>3. \A x \in DOMAIN requests' : InPhaseOK(requests'[x])
  BY <1>1 DEF Typed
<1> QED
  BY <1>1, <1>2, <1>3 DEF Typed

\* A submission, once it has arrived, keeps its token and its log, whatever else
\* becomes of it: what is founded in it stays founded.
LEMMA Keeps ==
    ASSUME DOMAIN requests \subseteq DOMAIN requests',
           \A x \in DOMAIN requests : IsSubmission(requests[x]) =>
               /\ IsSubmission(requests'[x])
               /\ requests'[x].token = requests[x].token
               /\ requests'[x].kel = requests[x].kel,
           NEW w, NEW t, NEW kel, Founded(w, t, kel)
    PROVE  Founded(w, t, kel)'
BY DEF Founded

\* A step that moves one request on without a judgement or an answer to a response
\* keeps the invariant.
LEMMA Advance ==
    ASSUME IInv, NEW r \in DOMAIN requests, NEW q \in Submissions \cup Responses,
           requests' = [requests EXCEPT ![r] = q],
           InPhaseOK(q),
           events' \in [Aids -> [SequenceNumbers -> Digests \cup {Null}]],
           words' \in [1 .. MaxRequests -> Tokens \cup {Null}],
           UNCHANGED login,
           requests[r].pc # "done", q.pc # "saving",
           IsSubmission(requests[r]) => IsSubmission(q) /\ q.token = requests[r].token /\ q.kel = requests[r].kel
    PROVE  IInv'
<1> USE DEF IInv
<1>1. /\ Typed'
      /\ DOMAIN requests' = DOMAIN requests
      /\ \A x \in DOMAIN requests : requests'[x] = IF x = r THEN q ELSE requests[x]
  BY Update DEF Typed
<1>2. \A w, t, kel : Founded(w, t, kel) => Founded(w, t, kel)'
  BY <1>1, Keeps
<1>3. ChallengesFounded'
  BY <1>2 DEF ChallengesFounded
<1>4. OutcomesFounded'
  BY <1>1, <1>2 DEF OutcomesFounded
<1>5. ResponsesFounded'
  BY <1>1, <1>2 DEF ResponsesFounded
<1> QED
  BY <1>1, <1>3, <1>4, <1>5

\* A submission with other accesses pending is a submission of the same log; so for
\* the other fields in the next lemmas.
LEMMA WithPending ==
    ASSUME NEW kel, NEW q \in SubmissionsOf(kel),
           NEW pending \in SUBSET (DOMAIN kel.events \cup {"login", "words"})
    PROVE  [q EXCEPT !.pending = pending] \in SubmissionsOf(kel)
BY DEF SubmissionsOf

\* A submission in another phase.
LEMMA WithPc ==
    ASSUME NEW kel, NEW q \in SubmissionsOf(kel),
           NEW pc \in {"reading", "recording", "failed", "issuing", "done"}
    PROVE  [q EXCEPT !.pc = pc] \in SubmissionsOf(kel)
BY DEF SubmissionsOf

\* A submission with another status.
LEMMA WithStatus ==
    ASSUME NEW kel, NEW q \in SubmissionsOf(kel), NEW status \in Statuses
    PROVE  [q EXCEPT !.status = status] \in SubmissionsOf(kel)
BY DEF SubmissionsOf

\* A submission that has read one more slot.
LEMMA SubmissionReads ==
    ASSUME NEW kel, NEW q \in SubmissionsOf(kel), NEW x \in DOMAIN kel.events,
           NEW digest \in Digests \cup {Null}, NEW pending \in SUBSET (DOMAIN kel.events \cup {"login", "words"})
    PROVE  [q EXCEPT !.pending = pending, !.seen[x] = digest] \in SubmissionsOf(kel)
BY DEF SubmissionsOf

\* The fields of a submission.
LEMMA SubmissionFields ==
    ASSUME NEW kel, NEW q \in SubmissionsOf(kel)
    PROVE  /\ q.token \in Tokens /\ q.kel = kel
           /\ q.pending \in SUBSET (DOMAIN kel.events \cup {"login", "words"})
           /\ q.seen \in [DOMAIN kel.events -> Digests \cup {Null}]
           /\ DOMAIN q = {"pc", "status", "token", "kel", "pending", "seen"}
BY DEF SubmissionsOf

\* A response in another phase; so for its other fields in the next lemmas.
LEMMA ResponsePc ==
    ASSUME NEW q \in Responses, NEW pc \in {"lookup", "found", "saving", "done"}
    PROVE  [q EXCEPT !.pc = pc] \in Responses
BY DEF Responses

\* A response with another status.
LEMMA ResponseStatus ==
    ASSUME NEW q \in Responses, NEW status \in Statuses
    PROVE  [q EXCEPT !.status = status] \in Responses
BY DEF Responses

\* A response whose token has been looked up.
LEMMA ResponseToken ==
    ASSUME NEW q \in Responses, NEW t \in Tokens
    PROVE  [q EXCEPT !.token = t] \in Responses
BY DEF Responses

\* A response with an outcome to write.
LEMMA ResponseRecord ==
    ASSUME NEW q \in Responses, NEW record \in Records
    PROVE  [q EXCEPT !.record = record] \in Responses
BY DEF Responses

\* The fields of a response.
LEMMA ResponseFields ==
    ASSUME NEW q \in Responses
    PROVE  /\ q.words \in 1 .. MaxRequests /\ q.kel \in Kels
           /\ DOMAIN q = {"pc", "status", "token", "kel", "words", "record"}
BY DEF Responses

\* A response is not a submission.
LEMMA ResponseOnly ==
    ASSUME NEW q \in Responses
    PROVE  ~ IsSubmission(q)
<1> SUFFICES ASSUME NEW kel, q \in SubmissionsOf(kel) PROVE FALSE
  BY DEF IsSubmission, Submissions
<1>1. DOMAIN q = {"pc", "status", "token", "kel", "pending", "seen"}
  BY SubmissionFields
<1>2. DOMAIN q = {"pc", "status", "token", "kel", "words", "record"}
  BY ResponseFields
<1>3. "seen" \notin {"pc", "status", "token", "kel", "words", "record"}
  OBVIOUS
<1> QED
  BY <1>1, <1>2, <1>3

\* The slots of a log are slots of the store.
LEMMA SlotOf ==
    ASSUME NEW kel \in Kels, NEW x \in DOMAIN kel.events
    PROVE  /\ kel.aid \in Aids /\ kel.events[x].s \in SequenceNumbers
           /\ kel.events[x].d \in Digests /\ kel.events[x].d # Null
BY LoginAssumption DEF Aids, SequenceNumbers, Digests

\* A slot is read into the submission that asked for it.
LEMMA ReadEventStep ==
    ASSUME IInv, NEW r \in DOMAIN requests, NEW x \in Positions, ReadEvent(r, x)
    PROVE  IInv'
<1> USE DEF IInv
<1>1. PICK kel \in Kels : kel = requests[r].kel /\ requests[r] \in SubmissionsOf(kel)
  BY RequestTyped DEF ReadEvent, At
<1>2. requests[r].pc = "reading" /\ x \in requests[r].pending /\ requests[r].pending \subseteq DOMAIN kel.events
  BY <1>1, RequestTyped DEF ReadEvent, At, InPhaseOK
<1>3. Slot(kel, x) \in Digests \cup {Null}
  BY <1>2, SlotOf DEF Typed, Slot
<1> DEFINE q == [requests[r] EXCEPT !.pending = @ \ {x}, !.seen[x] = Slot(kel, x)]
<1>4. q \in SubmissionsOf(kel)
  BY <1>1, <1>2, <1>3, SubmissionReads
<1>5. q.pc = "reading" /\ q.token = requests[r].token /\ q.kel = kel /\ q.pending \subseteq DOMAIN kel.events
  BY <1>1, <1>2, SubmissionFields
<1>6. requests' = [requests EXCEPT ![r] = q] /\ UNCHANGED <<events, login, words>>
  BY <1>1 DEF ReadEvent, Slot
<1>7. q \in Submissions \cup Responses /\ InPhaseOK(q) /\ IsSubmission(q)
  BY <1>4, <1>5 DEF Submissions, InPhaseOK, IsSubmission
<1> HIDE DEF q
<1> QED
  BY <1>1, <1>2, <1>5, <1>6, <1>7, Advance DEF Typed

\* Refused or about to record: the token and the log of the submission stay.
LEMMA CompareStep ==
    ASSUME IInv, NEW r \in DOMAIN requests, Compare(r)
    PROVE  IInv'
<1> USE DEF IInv
<1>1. PICK kel \in Kels : kel = requests[r].kel /\ requests[r] \in SubmissionsOf(kel)
  BY RequestTyped DEF Compare, At
<1>2. requests[r].pc = "reading" /\ UNCHANGED <<events, login, words>>
  BY DEF Compare, At
<1> DEFINE empty == {x \in DOMAIN requests[r].seen : requests[r].seen[x] = Null}
           refused == [requests[r] EXCEPT !.pc = "done", !.status = 409]
           accepted == [requests[r] EXCEPT !.pc = "recording", !.pending = empty]
<1>3. empty \subseteq DOMAIN kel.events
  BY <1>1, SubmissionFields
<1>4. requests' = [requests EXCEPT ![r] = refused] \/ requests' = [requests EXCEPT ![r] = accepted]
  BY DEF Compare, Answer
<1>5. refused \in SubmissionsOf(kel) /\ accepted \in SubmissionsOf(kel)
  <2> HIDE DEF empty
  <2>1. empty \in SUBSET (DOMAIN kel.events \cup {"login", "words"})
    BY <1>3
  <2>2. [requests[r] EXCEPT !.pc = "recording"] \in SubmissionsOf(kel)
    BY <1>1, WithPc
  <2>3. [requests[r] EXCEPT !.pc = "done"] \in SubmissionsOf(kel)
    BY <1>1, WithPc
  <2>4. accepted \in SubmissionsOf(kel)
    BY <2>1, <2>2, WithPending
  <2>5. refused \in SubmissionsOf(kel)
    <3>1. 409 \in Statuses
      BY DEF Statuses
    <3> QED
      BY <2>3, <3>1, WithStatus
  <2> QED
    BY <2>4, <2>5
<1>6. /\ refused.pc = "done" /\ refused.status = 409
      /\ refused.token = requests[r].token /\ refused.kel = kel
  BY <1>1, SubmissionFields
<1>7. /\ accepted.pc = "recording" /\ accepted.pending = empty
      /\ accepted.token = requests[r].token /\ accepted.kel = kel
  BY <1>1, SubmissionFields
<1> HIDE DEF refused, accepted, empty
<1>8. /\ refused \in Submissions \cup Responses /\ InPhaseOK(refused) /\ IsSubmission(refused)
      /\ accepted \in Submissions \cup Responses /\ InPhaseOK(accepted) /\ IsSubmission(accepted)
  BY <1>3, <1>5, <1>6, <1>7 DEF Submissions, InPhaseOK, IsSubmission
<1> QED
  BY <1>1, <1>2, <1>4, <1>6, <1>7, <1>8, Advance DEF Typed

\* What is written is a digest of the submitted log.
LEMMA WriteEventStep ==
    ASSUME IInv, NEW r \in DOMAIN requests, NEW x \in Positions, WriteEvent(r, x)
    PROVE  IInv'
<1> USE DEF IInv
<1>1. PICK kel \in Kels : kel = requests[r].kel /\ requests[r] \in SubmissionsOf(kel)
  BY RequestTyped DEF WriteEvent, At
<1>2. /\ requests[r].pc \in {"recording", "failed"} /\ x \in requests[r].pending
      /\ requests[r].pending \subseteq DOMAIN kel.events
  BY <1>1, RequestTyped DEF WriteEvent, At, InPhaseOK
<1>3. kel.events[x].d \in Digests /\ kel.events[x].s \in SequenceNumbers /\ kel.aid \in Aids
  BY <1>2, SlotOf
<1>4. events' \in [Aids -> [SequenceNumbers -> Digests \cup {Null}]]
  BY <1>1, <1>3 DEF WriteEvent, Typed
<1> DEFINE q == [requests[r] EXCEPT !.pending = @ \ {x}]
<1>5. q \in SubmissionsOf(kel)
  <2>1. requests[r].pending \ {x} \in SUBSET (DOMAIN kel.events \cup {"login", "words"})
    BY <1>2
  <2> QED
    BY <1>1, <2>1, WithPending
<1>6. q.pc = requests[r].pc /\ q.token = requests[r].token /\ q.kel = kel /\ q.pending \subseteq DOMAIN kel.events
  BY <1>1, <1>2, SubmissionFields
<1>7. requests' = [requests EXCEPT ![r] = q] /\ UNCHANGED <<login, words>>
  BY DEF WriteEvent
<1>8. q \in Submissions \cup Responses /\ InPhaseOK(q) /\ IsSubmission(q)
  BY <1>2, <1>5, <1>6 DEF Submissions, InPhaseOK, IsSubmission
<1> HIDE DEF q
<1> QED
  BY <1>1, <1>2, <1>4, <1>6, <1>7, <1>8, Advance DEF Typed

\* A failed submission stays the submission it was.
LEMMA RecordingFailsStep ==
    ASSUME IInv, NEW r \in DOMAIN requests, RecordingFails(r)
    PROVE  IInv'
<1> USE DEF IInv
<1>1. PICK kel \in Kels : kel = requests[r].kel /\ requests[r] \in SubmissionsOf(kel)
  BY RequestTyped DEF RecordingFails, At
<1>2. /\ requests[r].pc \in {"reading", "recording"} /\ UNCHANGED <<events, login, words>>
      /\ requests[r].pending \subseteq DOMAIN kel.events
  BY <1>1, RequestTyped DEF RecordingFails, At, InPhaseOK
<1>3. PICK left \in SUBSET requests[r].pending :
         requests' = [requests EXCEPT ![r] = [@ EXCEPT !.pc = "failed", !.status = 500, !.pending = left]]
  <2>1. PICK x \in requests[r].pending :
          requests' = [requests EXCEPT ![r].pc = "failed", ![r].status = 500,
                ![r].pending = IF requests[r].pc = "reading" THEN {} ELSE @ \ {x}]
    BY DEF RecordingFails
  <2>2. PICK left \in SUBSET requests[r].pending :
           left = IF requests[r].pc = "reading" THEN {} ELSE requests[r].pending \ {x}
    OBVIOUS
  <2>3. requests' = [requests EXCEPT ![r] = [@ EXCEPT !.pc = "failed", !.status = 500, !.pending = left]]
    <3>1. requests' = [requests EXCEPT ![r].pc = "failed", ![r].status = 500, ![r].pending = left]
      BY <2>1, <2>2, Zenon
    <3> HIDE <2>1, <2>2
    <3> QED
      BY <3>1
  <2> QED
    BY <2>3
<1> DEFINE q == [requests[r] EXCEPT !.pc = "failed", !.status = 500, !.pending = left]
<1>4. q \in SubmissionsOf(kel)
  <2>1. left \in SUBSET (DOMAIN kel.events \cup {"login", "words"})
    BY <1>2
  <2>2. [requests[r] EXCEPT !.pc = "failed"] \in SubmissionsOf(kel)
    BY <1>1, WithPc
  <2>3. [requests[r] EXCEPT !.pc = "failed", !.status = 500] \in SubmissionsOf(kel)
    <3>1. 500 \in Statuses
      BY DEF Statuses
    <3> QED
      BY <2>2, <3>1, WithStatus
  <2> QED
    BY <2>1, <2>3, WithPending
<1>5. q.pc = "failed" /\ q.token = requests[r].token /\ q.kel = kel /\ q.pending \subseteq DOMAIN kel.events
  BY <1>1, <1>2, SubmissionFields
<1>6. requests' = [requests EXCEPT ![r] = q]
  BY <1>3
<1>7. q \in Submissions \cup Responses /\ InPhaseOK(q) /\ IsSubmission(q)
  BY <1>4, <1>5 DEF Submissions, InPhaseOK, IsSubmission
<1> HIDE DEF q
<1> QED
  BY <1>1, <1>2, <1>5, <1>6, <1>7, Advance DEF Typed

\* Issuing the challenge changes nothing that a login rests on until the login record
\* is written.
LEMMA IssueStep ==
    ASSUME IInv, NEW r \in DOMAIN requests, IssueChallenge(r) \/ WriteWords(r) \/ Challenge(r)
    PROVE  IInv'
<1> USE DEF IInv
<1>1. PICK kel \in Kels : kel = requests[r].kel /\ requests[r] \in SubmissionsOf(kel)
  BY RequestTyped DEF IssueChallenge, WriteWords, Challenge, At
<1> DEFINE issuing == [requests[r] EXCEPT !.pc = "issuing", !.pending = {"login", "words"}]
           written == [requests[r] EXCEPT !.pending = @ \ {"words"}]
           done == [requests[r] EXCEPT !.pc = "done", !.status = 200]
<1>2. requests[r].pc \in {"recording", "issuing"} /\ UNCHANGED <<events, login>>
  BY DEF IssueChallenge, WriteWords, Challenge, At
<1>3. \/ requests' = [requests EXCEPT ![r] = issuing]
      \/ requests' = [requests EXCEPT ![r] = written] /\ requests[r].pc = "issuing"
      \/ requests' = [requests EXCEPT ![r] = done]
  BY DEF IssueChallenge, WriteWords, Challenge, Answer, At
<1>4. words' \in [1 .. MaxRequests -> Tokens \cup {Null}]
  <2>1. requests[r].token \in Tokens
    BY <1>1, SubmissionFields
  <2> QED
    BY <2>1 DEF IssueChallenge, WriteWords, Challenge, Typed
<1>5. issuing \in SubmissionsOf(kel)
  <2>1. [requests[r] EXCEPT !.pc = "issuing"] \in SubmissionsOf(kel)
    BY <1>1, WithPc
  <2> QED
    BY <2>1, WithPending
<1>6. written \in SubmissionsOf(kel)
  <2>1. requests[r].pending \ {"words"} \in SUBSET (DOMAIN kel.events \cup {"login", "words"})
    BY <1>1, SubmissionFields
  <2> QED
    BY <1>1, <2>1, WithPending
<1>7. done \in SubmissionsOf(kel)
  <2>1. [requests[r] EXCEPT !.pc = "done"] \in SubmissionsOf(kel)
    BY <1>1, WithPc
  <2>2. 200 \in Statuses
    BY DEF Statuses
  <2> QED
    BY <2>1, <2>2, WithStatus
<1>8. /\ issuing.pc = "issuing" /\ issuing.token = requests[r].token /\ issuing.kel = kel
      /\ written.pc = requests[r].pc /\ written.token = requests[r].token /\ written.kel = kel
      /\ done.pc = "done" /\ done.status = 200 /\ done.token = requests[r].token /\ done.kel = kel
  BY <1>1, SubmissionFields
<1> HIDE DEF issuing, written, done
<1>9. CASE requests' = [requests EXCEPT ![r] = issuing]
  <2>1. issuing \in Submissions \cup Responses /\ InPhaseOK(issuing) /\ IsSubmission(issuing)
    BY <1>5, <1>8 DEF Submissions, InPhaseOK, IsSubmission
  <2>2. requests[r].pc # "done" /\ issuing.pc # "saving" /\ issuing.token = requests[r].token /\ issuing.kel = requests[r].kel
    BY <1>1, <1>2, <1>8, <1>9
  <2>3. events' \in [Aids -> [SequenceNumbers -> Digests \cup {Null}]] /\ UNCHANGED login
    BY <1>2 DEF Typed
  <2> QED
    BY <1>4, <1>9, <2>1, <2>2, <2>3, Advance
<1>10. CASE requests' = [requests EXCEPT ![r] = written] /\ requests[r].pc = "issuing"
  <2>1. written \in Submissions \cup Responses /\ InPhaseOK(written) /\ IsSubmission(written)
    BY <1>6, <1>8, <1>10 DEF Submissions, InPhaseOK, IsSubmission
  <2>2. requests[r].pc # "done" /\ written.pc # "saving" /\ written.token = requests[r].token /\ written.kel = requests[r].kel
    BY <1>1, <1>2, <1>8, <1>10
  <2>3. events' \in [Aids -> [SequenceNumbers -> Digests \cup {Null}]] /\ UNCHANGED login
    BY <1>2 DEF Typed
  <2> QED
    BY <1>4, <1>10, <2>1, <2>2, <2>3, Advance
<1>11. CASE requests' = [requests EXCEPT ![r] = done]
  <2>1. done \in Submissions \cup Responses /\ InPhaseOK(done) /\ IsSubmission(done)
    BY <1>7, <1>8 DEF Submissions, InPhaseOK, IsSubmission
  <2>2. requests[r].pc # "done" /\ done.pc # "saving" /\ done.token = requests[r].token /\ done.kel = requests[r].kel
    BY <1>1, <1>2, <1>8, <1>11
  <2>3. events' \in [Aids -> [SequenceNumbers -> Digests \cup {Null}]] /\ UNCHANGED login
    BY <1>2 DEF Typed
  <2> QED
    BY <1>4, <1>11, <2>1, <2>2, <2>3, Advance
<1> QED
  BY <1>3, <1>9, <1>10, <1>11

\* The login record that is written is founded in the submission that writes it.
LEMMA WriteLoginStep ==
    ASSUME IInv, NEW r \in DOMAIN requests, WriteLogin(r)
    PROVE  IInv'
<1> USE DEF IInv
<1>1. PICK kel \in Kels : kel = requests[r].kel /\ requests[r] \in SubmissionsOf(kel)
  BY RequestTyped DEF WriteLogin, At
<1>2. PICK t \in Tokens : t = requests[r].token
  BY <1>1, SubmissionFields
<1> DEFINE q == [requests[r] EXCEPT !.pending = @ \ {"login"}]
           record == [phase |-> "challenged", kel |-> kel, words |-> r, error |-> Null]
<1>3. requests[r].pc = "issuing" /\ UNCHANGED <<events, words>> /\ requests' = [requests EXCEPT ![r] = q]
      /\ login' = [login EXCEPT ![t] = record]
  BY <1>1, <1>2 DEF WriteLogin, At
<1>4. q \in SubmissionsOf(kel)
  <2>1. requests[r].pending \ {"login"} \in SUBSET (DOMAIN kel.events \cup {"login", "words"})
    BY <1>1, SubmissionFields
  <2> QED
    BY <1>1, <2>1, WithPending
<1>5. q.pc = "issuing" /\ q.token = t /\ q.kel = kel
  BY <1>1, <1>3, <1>2, SubmissionFields
<1> HIDE DEF q
<1>6. q \in Submissions \cup Responses /\ InPhaseOK(q) /\ IsSubmission(q)
  BY <1>4, <1>5 DEF Submissions, InPhaseOK, IsSubmission
<1>7. record \in Records
  <2>1. r \in 1 .. MaxRequests
    BY LoginAssumption DEF Typed
  <2> QED
    BY <2>1 DEF Records
<1>8. login' \in [Tokens -> Records \cup {Null}]
  BY <1>3, <1>7 DEF Typed
<1>9. /\ Typed'
      /\ DOMAIN requests' = DOMAIN requests
      /\ \A x \in DOMAIN requests : requests'[x] = IF x = r THEN q ELSE requests[x]
  BY <1>3, <1>6, <1>8, Update DEF Typed
<1>10. \A w, s, k : Founded(w, s, k) => Founded(w, s, k)'
  BY <1>1, <1>5, <1>2, <1>6, <1>9, Keeps
<1>11. Founded(r, t, kel)'
  BY <1>5, <1>6, <1>9 DEF Founded
<1>12. login'[t] = record /\ \A s \in Tokens \ {t} : login'[s] = login[s]
  BY <1>3, <1>2 DEF Typed
<1>13. record.phase = "challenged" /\ record.words = r /\ record.kel = kel
  OBVIOUS
<1> HIDE DEF record
<1>14. ChallengesFounded'
  <2> SUFFICES ASSUME NEW s \in Tokens, login'[s] # Null /\ login'[s].phase = "challenged"
               PROVE  Founded(login[s].words, s, login[s].kel)'
    BY Zenon DEF ChallengesFounded
  <2>1. CASE s = t
    <3>1. Founded(r, s, kel)' /\ login'[s].words = r /\ login'[s].kel = kel
      BY <1>11, <1>12, <1>13, <2>1
    <3> QED
      BY <3>1 DEF Founded
  <2>2. CASE s # t
    BY <1>10, <1>12, <2>2 DEF ChallengesFounded
  <2> QED
    BY <2>1, <2>2
<1>15. OutcomesFounded'
  BY <1>5, <1>9, <1>10 DEF OutcomesFounded
<1>16. ResponsesFounded'
  BY <1>3, <1>9, <1>10, <1>12, <1>13 DEF ResponsesFounded
<1> QED
  BY <1>9, <1>14, <1>15, <1>16

\* Looking up the token and being turned away accept nothing.
LEMMA LookUpStep ==
    ASSUME IInv, NEW r \in DOMAIN requests, LookUpToken(r) \/ Unknown(r) \/ Used(r)
    PROVE  IInv'
<1> USE DEF IInv
<1> DEFINE t == words[requests[r].words]
           found == [requests[r] EXCEPT !.pc = "found", !.token = t]
           done(status) == [requests[r] EXCEPT !.pc = "done", !.status = status]
<1>1. requests[r].pc \in {"lookup", "found"} /\ UNCHANGED <<events, login, words>>
  BY DEF LookUpToken, Unknown, Used, At
<1>2. requests[r] \in Responses /\ ~ IsSubmission(requests[r])
  BY <1>1, RequestTyped, ResponseOnly
<1>3. \/ requests' = [requests EXCEPT ![r] = found] /\ t # Null
      \/ \E status \in Statuses : requests' = [requests EXCEPT ![r] = done(status)]
  <2>1. 404 \in Statuses /\ 410 \in Statuses
    BY DEF Statuses
  <2>2. CASE LookUpToken(r)
    <3>1. CASE t = Null
      <4>1. requests' = [requests EXCEPT ![r] = done(404)]
        BY <2>2, <3>1 DEF LookUpToken, Answer
      <4> HIDE DEF done, found, t
      <4> QED
        BY <2>1, <4>1
    <3>2. CASE t # Null
      <4>1. requests' = [requests EXCEPT ![r] = found]
        BY <2>2, <3>2 DEF LookUpToken
      <4> QED
        BY <3>2, <4>1
    <3> QED
      BY <3>1, <3>2
  <2>3. CASE Unknown(r)
    <3>1. requests' = [requests EXCEPT ![r] = done(404)]
      BY <2>3 DEF Unknown, Answer
    <3> HIDE DEF done, found, t
    <3> QED
      BY <2>1, <3>1
  <2>4. CASE Used(r)
    <3>1. requests' = [requests EXCEPT ![r] = done(410)]
      BY <2>4 DEF Used, Answer
    <3> HIDE DEF done, found, t
    <3> QED
      BY <2>1, <3>1
  <2> QED
    BY <2>2, <2>3, <2>4
<1>4. /\ events' \in [Aids -> [SequenceNumbers -> Digests \cup {Null}]]
      /\ words' \in [1 .. MaxRequests -> Tokens \cup {Null}]
  BY <1>1 DEF Typed
<1>5. CASE requests' = [requests EXCEPT ![r] = found] /\ t # Null
  <2>1. t \in Tokens
    <3>1. requests[r].words \in 1 .. MaxRequests
      BY <1>2, ResponseFields
    <3> QED
      BY <1>5, <3>1 DEF Typed
  <2> HIDE DEF t
  <2>2. found \in Responses
    BY <1>2, <2>1, ResponseToken, ResponsePc
  <2>3. found.pc = "found" /\ found.token = t
    BY <1>2, ResponseFields
  <2> HIDE DEF found
  <2>4. InPhaseOK(found)
    BY <2>1, <2>3 DEF InPhaseOK
  <2> QED
    BY <1>1, <1>2, <1>5, <1>4, <2>2, <2>3, <2>4, Advance
<1>6. ASSUME NEW status \in Statuses, requests' = [requests EXCEPT ![r] = done(status)]
      PROVE  IInv'
  <2> DEFINE q == done(status)
  <2>1. q \in Responses
    <3>1. [requests[r] EXCEPT !.pc = "done"] \in Responses
      BY <1>2, ResponsePc
    <3> QED
      BY <3>1, ResponseStatus
  <2>2. q.pc = "done"
    BY <1>2, ResponseFields
  <2>3. requests' = [requests EXCEPT ![r] = q]
    BY <1>6
  <2> HIDE DEF q
  <2>4. InPhaseOK(q)
    BY <2>2 DEF InPhaseOK
  <2> QED
    BY <1>1, <1>2, <1>4, <2>1, <2>2, <2>3, <2>4, Advance
<1> HIDE DEF done
<1> QED
  BY <1>3, <1>5, <1>6

\* The outcome is decided on a record that is founded in the submission whose words
\* the response repeats, and it is made from that record.
LEMMA JudgeStep ==
    ASSUME IInv, NEW r \in DOMAIN requests, Refuse(r) \/ Accept(r)
    PROVE  IInv'
<1> USE DEF IInv
<1>1. requests[r].pc = "found" /\ Matches(r) /\ UNCHANGED <<events, login, words>>
  BY DEF Refuse, Accept, Matches, At
<1>2. requests[r] \in Responses /\ ~ IsSubmission(requests[r])
  BY <1>1, RequestTyped, ResponseOnly
<1>3. PICK t \in Tokens : t = requests[r].token
  BY <1>1, RequestTyped DEF InPhaseOK
<1>4. PICK old \in Records : /\ old = login[t] /\ old.phase = "challenged"
                            /\ old.words = requests[r].words /\ Founded(requests[r].words, t, old.kel)
  <2>1. login[t] # Null /\ login[t].phase = "challenged" /\ login[t].words = requests[r].words
    BY <1>1, <1>3 DEF Matches, InPhase, LoginOf
  <2>2. login[t] \in Records
    BY <2>1 DEF Typed
  <2>3. Founded(login[t].words, t, login[t].kel)
    BY <2>1 DEF ChallengesFounded
  <2> QED
    BY <2>1, <2>2, <2>3
<1>5. PICK record \in Records :
         /\ requests' = [requests EXCEPT ![r].pc = "saving", ![r].record = record]
         /\ record.kel = old.kel
         /\ record.phase = "challenged" => record.words = requests[r].words
         /\ record.phase = "authenticated" => Verifies(requests[r].kel, record)
  <2>1. CASE Refuse(r)
    <3>. PICK error \in {400, 409} : error = IF SignedBy(requests[r].kel, LoginOf(r)) THEN 409 ELSE 400
      OBVIOUS
    <3> DEFINE record == [old EXCEPT !.error = error]
    <3>1. requests' = [requests EXCEPT ![r].pc = "saving", ![r].record = record]
      BY <1>3, <1>4, <2>1 DEF Refuse, Save, LoginOf
    <3>2. record \in Records /\ record.phase = "challenged" /\ record.words = old.words /\ record.kel = old.kel
      BY <1>4 DEF Records
    <3> HIDE DEF record
    <3> QED
      BY <1>4, <3>1, <3>2
  <2>2. CASE Accept(r)
    <3> DEFINE record == [phase |-> "authenticated", kel |-> old.kel]
    <3>1. requests' = [requests EXCEPT ![r].pc = "saving", ![r].record = record]
      BY <1>3, <1>4, <2>2 DEF Accept, Save, LoginOf
    <3>2. Verifies(requests[r].kel, old)
      BY <1>3, <1>4, <2>2 DEF Accept, LoginOf
    <3>3. Verifies(requests[r].kel, record)
      BY <3>2 DEF Verifies, SignedBy
    <3>4. record \in Records /\ record.phase = "authenticated" /\ record.kel = old.kel
      BY <1>4 DEF Records
    <3> HIDE DEF record
    <3> QED
      BY <3>1, <3>3, <3>4
  <2> QED
    BY <2>1, <2>2
<1> DEFINE q == [requests[r] EXCEPT !.pc = "saving", !.record = record]
<1>6. q \in Responses
  <2>1. [requests[r] EXCEPT !.pc = "saving"] \in Responses
    BY <1>2, ResponsePc
  <2> QED
    BY <2>1, ResponseRecord
<1>7. /\ q.pc = "saving" /\ q.record = record /\ q.token = t /\ q.kel = requests[r].kel
      /\ q.words = requests[r].words
  BY <1>2, <1>3, ResponseFields
<1>8. requests' = [requests EXCEPT ![r] = q]
  BY <1>5
<1> HIDE DEF q
<1>9. InPhaseOK(q)
  BY <1>7 DEF InPhaseOK
<1>10. /\ events' \in [Aids -> [SequenceNumbers -> Digests \cup {Null}]]
       /\ words' \in [1 .. MaxRequests -> Tokens \cup {Null}]
       /\ login' \in [Tokens -> Records \cup {Null}]
  BY <1>1 DEF Typed
<1>11. /\ Typed'
       /\ DOMAIN requests' = DOMAIN requests
       /\ \A x \in DOMAIN requests : requests'[x] = IF x = r THEN q ELSE requests[x]
  BY <1>6, <1>8, <1>9, <1>10, Update
<1>12. \A w, s, k : Founded(w, s, k) => Founded(w, s, k)'
  BY <1>2, <1>11, Keeps
<1>13. ChallengesFounded'
  BY <1>1, <1>12 DEF ChallengesFounded
<1>14. OutcomesFounded'
  <2> SUFFICES ASSUME NEW x \in DOMAIN requests', requests'[x].pc = "saving"
               PROVE  /\ Founded(requests[x].words, requests[x].token, requests[x].record.kel)'
                      /\ requests'[x].record.phase = "challenged" =>
                            requests'[x].record.words = requests'[x].words
                      /\ requests'[x].record.phase = "authenticated" =>
                            Verifies(requests'[x].kel, requests'[x].record)
    BY DEF OutcomesFounded, Verifies
  <2>1. CASE x = r
    <3>1. Founded(requests[r].words, t, record.kel)
      BY <1>4, <1>5
    <3>2. PICK w : w = requests[r].words
      OBVIOUS
    <3>3. Founded(w, t, record.kel)'
      BY <1>12, <3>1, <3>2
    <3>4. requests'[x] = q
      BY <1>11, <2>1
    <3>5. Founded(requests[x].words, requests[x].token, requests[x].record.kel)'
      BY <1>7, <3>2, <3>3, <3>4
    <3> QED
      BY <1>5, <1>7, <3>4, <3>5
  <2>2. CASE x # r
    <3>1. requests'[x] = requests[x] /\ x \in DOMAIN requests
      BY <1>11, <2>2
    <3> QED
      BY <1>12, <3>1 DEF OutcomesFounded
  <2> QED
    BY <2>1, <2>2
<1>15. ResponsesFounded'
  BY <1>1, <1>11, <1>12 DEF ResponsesFounded
<1> QED
  BY <1>11, <1>13, <1>14, <1>15

\* The outcome that is written was decided earlier, maybe on a record that has been
\* replaced meanwhile; it is founded all the same.
LEMMA WriteOutcomeStep ==
    ASSUME IInv, NEW r \in DOMAIN requests, WriteOutcome(r)
    PROVE  IInv'
<1> USE DEF IInv
<1>1. requests[r].pc = "saving" /\ UNCHANGED <<events, words>>
  BY DEF WriteOutcome, At
<1>2. requests[r] \in Responses /\ ~ IsSubmission(requests[r])
  BY <1>1, RequestTyped, ResponseOnly
<1>3. PICK t \in Tokens : t = requests[r].token
  BY <1>1, RequestTyped DEF InPhaseOK
<1>4. PICK record \in Records : record = requests[r].record
  BY <1>1, RequestTyped DEF InPhaseOK
<1>5. PICK w : w = requests[r].words
  OBVIOUS
<1>6. /\ Founded(w, t, record.kel)
      /\ record.phase = "challenged" => record.words = w
      /\ record.phase = "authenticated" => Verifies(requests[r].kel, record)
  BY <1>1, <1>3, <1>4, <1>5 DEF OutcomesFounded
<1>7. PICK status \in Statuses :
         /\ requests' = [requests EXCEPT ![r].pc = "done", ![r].status = status]
         /\ record.phase = "authenticated" => status = 204
  <2> DEFINE status == IF record.phase = "authenticated" THEN 204 ELSE record.error
  <2>1. status \in Statuses /\ (record.phase = "authenticated" => status = 204)
    BY DEF Statuses, Records
  <2>2. Answer(r, status)
    BY <1>4 DEF WriteOutcome
  <2> HIDE DEF status
  <2>3. requests' = [requests EXCEPT ![r].pc = "done", ![r].status = status]
    BY <2>2 DEF Answer
  <2> QED
    BY <2>1, <2>3
<1> DEFINE q == [requests[r] EXCEPT !.pc = "done", !.status = status]
<1>8. q \in Responses
  <2>1. [requests[r] EXCEPT !.pc = "done"] \in Responses
    BY <1>2, ResponsePc
  <2> QED
    BY <2>1, ResponseStatus
<1>9. q.pc = "done" /\ q.status = status /\ q.token = t /\ q.kel = requests[r].kel /\ q.words = w
  BY <1>2, <1>3, <1>5, ResponseFields
<1>10. requests' = [requests EXCEPT ![r] = q]
  BY <1>7
<1> HIDE DEF q
<1>11. InPhaseOK(q)
  BY <1>9 DEF InPhaseOK
<1>12. login' = [login EXCEPT ![t] = record]
  BY <1>3, <1>4 DEF WriteOutcome
<1>13. /\ events' \in [Aids -> [SequenceNumbers -> Digests \cup {Null}]]
       /\ words' \in [1 .. MaxRequests -> Tokens \cup {Null}]
       /\ login' \in [Tokens -> Records \cup {Null}]
       /\ login'[t] = record /\ \A s \in Tokens \ {t} : login'[s] = login[s]
  BY <1>1, <1>12 DEF Typed
<1>14. /\ Typed'
       /\ DOMAIN requests' = DOMAIN requests
       /\ \A x \in DOMAIN requests : requests'[x] = IF x = r THEN q ELSE requests[x]
  BY <1>8, <1>10, <1>11, <1>13, Update
<1>15. \A v, s, k : Founded(v, s, k) => Founded(v, s, k)'
  BY <1>2, <1>14, Keeps
<1>16. ChallengesFounded'
  <2> SUFFICES ASSUME NEW s \in Tokens, login'[s] # Null /\ login'[s].phase = "challenged"
               PROVE  Founded(login[s].words, s, login[s].kel)'
    BY Zenon DEF ChallengesFounded
  <2>1. CASE s = t
    <3>1. Founded(w, s, record.kel)' /\ login'[s].words = w /\ login'[s].kel = record.kel
      BY <1>6, <1>13, <1>15, <2>1
    <3> QED
      BY <3>1 DEF Founded
  <2>2. CASE s # t
    BY <1>13, <1>15, <2>2 DEF ChallengesFounded
  <2> QED
    BY <2>1, <2>2
<1>17. OutcomesFounded'
  BY <1>9, <1>14, <1>15 DEF OutcomesFounded
<1>18. ResponsesFounded'
  <2> SUFFICES ASSUME NEW s \in Tokens, login'[s] # Null /\ login'[s].phase = "authenticated"
               PROVE  \E x \in DOMAIN requests' :
                         /\ requests'[x].pc = "done" /\ requests'[x].status = 204 /\ requests'[x].token = s
                         /\ Verifies(requests'[x].kel, login'[s])
                         /\ Founded(requests[x].words, s, login[s].kel)'
    BY Zenon DEF ResponsesFounded, Verifies
  <2>1. CASE s = t
    <3>1. requests'[r] = q /\ r \in DOMAIN requests' /\ login'[s] = record
      BY <1>13, <1>14, <2>1
    <3>2. Founded(w, s, record.kel)'
      BY <1>6, <1>15, <2>1
    <3>3. Founded(requests[r].words, s, login[s].kel)'
      BY <1>9, <3>1, <3>2 DEF Founded
    <3>4. Verifies(q.kel, record) /\ q.status = 204
      BY <1>6, <1>7, <1>9, <3>1
    <3> QED
      BY <1>9, <2>1, <3>1, <3>3, <3>4
  <2>2. CASE s # t
    <3>1. login'[s] = login[s]
      BY <1>13, <2>2
    <3>2. PICK x \in DOMAIN requests :
             /\ requests[x].pc = "done" /\ requests[x].status = 204 /\ requests[x].token = s
             /\ Verifies(requests[x].kel, login[s])
             /\ Founded(requests[x].words, s, login[s].kel)
      BY <3>1 DEF ResponsesFounded
    <3>3. requests'[x] = requests[x] /\ x \in DOMAIN requests'
      BY <1>1, <1>14, <3>2
    <3>4. Founded(requests[x].words, s, login[s].kel)'
      BY <1>15, <3>1, <3>2, <3>3
    <3> QED
      BY <3>1, <3>2, <3>3, <3>4
  <2> QED
    BY <2>1, <2>2
<1> QED
  BY <1>14, <1>16, <1>17, <1>18

\* A request that arrives leaves those before it alone.
LEMMA ArriveStep ==
    ASSUME IInv, NEW q \in Submissions \cup Responses, Arrive(q), q.pc \in {"reading", "lookup"}, InPhaseOK(q)
    PROVE  /\ IInv'
           /\ DOMAIN requests' = 1 .. Len(requests) + 1
           /\ requests'[Len(requests) + 1] = q
           /\ \A x \in DOMAIN requests : requests'[x] = requests[x]
<1> USE DEF IInv
<1>1. /\ requests' = Append(requests, q) /\ UNCHANGED <<events, login, words>>
      /\ Len(requests) < MaxRequests
  BY DEF Arrive
<1>2. /\ requests' \in Seq(Submissions \cup Responses)
      /\ Len(requests') = Len(requests) + 1 /\ Len(requests) \in Nat
      /\ DOMAIN requests = 1 .. Len(requests)
      /\ DOMAIN requests' = 1 .. Len(requests) + 1
      /\ requests'[Len(requests) + 1] = q
      /\ \A x \in DOMAIN requests : requests'[x] = requests[x]
  BY <1>1 DEF Typed
<1>3. \A x \in DOMAIN requests' : x \in DOMAIN requests \/ requests'[x] = q
  BY <1>2
<1>4. Typed'
  BY <1>1, <1>2, <1>3, LoginAssumption DEF Typed
<1>5. DOMAIN requests \subseteq DOMAIN requests'
  BY <1>2
<1>6. \A v, s, k : Founded(v, s, k) => Founded(v, s, k)'
  BY <1>2, <1>5, Keeps
<1>7. ChallengesFounded'
  BY <1>1, <1>6 DEF ChallengesFounded
<1>8. OutcomesFounded'
  BY <1>2, <1>3, <1>6 DEF OutcomesFounded
<1>9. ResponsesFounded'
  BY <1>1, <1>2, <1>5, <1>6 DEF ResponsesFounded
<1> QED
  BY <1>2, <1>4, <1>7, <1>8, <1>9

\* A submission arrives.
LEMMA SubmitStep ==
    ASSUME IInv, NEW t \in Tokens, NEW kel \in Kels, Submit(t, kel)
    PROVE  IInv'
<1> DEFINE q == [pc |-> "reading", status |-> Null, token |-> t, kel |-> kel,
                 pending |-> DOMAIN kel.events, seen |-> [x \in DOMAIN kel.events |-> Null]]
<1>1. q \in SubmissionsOf(kel)
  BY DEF SubmissionsOf, Statuses
<1>2. q.pc = "reading" /\ q.kel = kel /\ q.pending = DOMAIN kel.events
  OBVIOUS
<1>3. Arrive(q)
  BY DEF Submit
<1> HIDE DEF q
<1>4. q \in Submissions \cup Responses /\ InPhaseOK(q)
  BY <1>1, <1>2 DEF Submissions, InPhaseOK
<1> QED
  BY <1>2, <1>3, <1>4, ArriveStep

\* A response arrives.
LEMMA RespondStep ==
    ASSUME IInv, NEW w \in 1 .. MaxRequests, NEW kel \in Kels, Respond(w, kel)
    PROVE  IInv'
<1> DEFINE q == [pc |-> "lookup", status |-> Null, token |-> Null, kel |-> kel,
                 words |-> w, record |-> Null]
<1>1. q \in Responses
  BY DEF Responses, Statuses
<1>2. q.pc = "lookup"
  OBVIOUS
<1>3. Arrive(q)
  BY DEF Respond
<1> HIDE DEF q
<1>4. InPhaseOK(q)
  BY <1>2 DEF InPhaseOK
<1> QED
  BY <1>1, <1>2, <1>3, <1>4, ArriveStep

\* An entry that expires founds nothing new.
LEMMA ExpireStep ==
    ASSUME IInv, Expire
    PROVE  IInv'
<1> USE DEF IInv
<1>1. /\ UNCHANGED <<events, requests>>
      /\ login' \in [Tokens -> Records \cup {Null}] /\ words' \in [1 .. MaxRequests -> Tokens \cup {Null}]
      /\ \A t \in Tokens : login'[t] \in {login[t], Null}
  BY DEF Expire, Typed
<1>2. Typed'
  BY <1>1 DEF Typed, InPhaseOK
<1>3. \A w, t, kel : Founded(w, t, kel)' <=> Founded(w, t, kel)
  BY <1>1 DEF Founded
<1>4. ChallengesFounded'
  BY <1>1, <1>3 DEF ChallengesFounded
<1>5. OutcomesFounded'
  BY <1>1, <1>3 DEF OutcomesFounded
<1>6. ResponsesFounded'
  BY <1>1, <1>3 DEF ResponsesFounded
<1> QED
  BY <1>2, <1>4, <1>5, <1>6

LEMMA InitIInv == Init => IInv
<1> SUFFICES ASSUME Init PROVE IInv
  OBVIOUS
<1>1. requests = <<>> /\ \A t \in Tokens : login[t] = Null
  BY DEF Init
<1>2. Typed
  BY <1>1, LoginAssumption DEF Init, Typed
<1> QED
  BY <1>1, <1>2 DEF IInv, ChallengesFounded, OutcomesFounded, ResponsesFounded

LEMMA NextIInv == IInv /\ [Next]_vars => IInv'
<1> SUFFICES ASSUME IInv, [Next]_vars PROVE IInv'
  OBVIOUS
<1>1. CASE \E t \in Tokens, kel \in Kels : Submit(t, kel)
  BY <1>1, SubmitStep
<1>2. CASE \E w \in 1 .. MaxRequests, kel \in Kels : Respond(w, kel)
  BY <1>2, RespondStep
<1>3. ASSUME NEW r \in DOMAIN requests, NEW x \in Positions, ReadEvent(r, x) \/ WriteEvent(r, x)
      PROVE  IInv'
  BY <1>3, ReadEventStep, WriteEventStep
<1>4. ASSUME NEW r \in DOMAIN requests,
             \/ Compare(r) \/ RecordingFails(r) \/ IssueChallenge(r)
             \/ WriteLogin(r) \/ WriteWords(r) \/ Challenge(r)
      PROVE  IInv'
  BY <1>4, CompareStep, RecordingFailsStep, IssueStep, WriteLoginStep
<1>5. ASSUME NEW r \in DOMAIN requests,
             LookUpToken(r) \/ Unknown(r) \/ Used(r) \/ Refuse(r) \/ Accept(r) \/ WriteOutcome(r)
      PROVE  IInv'
  BY <1>5, LookUpStep, JudgeStep, WriteOutcomeStep
<1>6. CASE Expire
  BY <1>6, ExpireStep
<1>7. CASE UNCHANGED vars
  BY <1>7 DEF vars, IInv, Typed, InPhaseOK, ChallengesFounded, OutcomesFounded, ResponsesFounded, Founded, IsSubmission, Verifies
<1> QED
  BY <1>1, <1>2, <1>3, <1>4, <1>5, <1>6, <1>7 DEF Next

\* An authenticated token has an accepted response to a challenge that was issued for
\* this token and this log, under any interleaving of submissions, responses and
\* expiries, and however many submissions record at a time: handleChallengeResponse
\* decides on one copy of the record and writes later.
THEOREM Authenticated == Spec => []AuthenticatedByResponse
<1>1. IInv => AuthenticatedByResponse
  BY DEF IInv, ResponsesFounded, AuthenticatedByResponse, Founded
<1> QED
  BY <1>1, InitIInv, NextIInv, PTL DEF Spec

-----------------------------------------------------------------------------
(* Recording, one submission at a time. *)

\* The submissions that are recording, by their phase alone.
LEMMA RecordingIs ==
    \A r : r \in Recording <=> r \in DOMAIN requests /\ IsRecording(requests[r])
BY DEF Recording, IsRecording, At

\* The digests that may stand in the slot of an event are not Null.
LEMMA OwnEvents ==
    ASSUME NEW kel \in Kels, NEW x \in DOMAIN kel.events
    PROVE  kel.events[x].d \in OwnAt(kel, x) /\ Null \notin OwnAt(kel, x)
BY LoginAssumption DEF OwnAt, EventsAt

\* The logs relied on are among those submitted.
LEMMA ReliedTyped ==
    ASSUME IInv
    PROVE  \A kel : Relied(kel) => kel \in Kels
<1> SUFFICES ASSUME NEW kel, Relied(kel) PROVE kel \in Kels
  OBVIOUS
<1>1. CASE \E t \in Tokens : login[t] # Null /\ kel = login[t].kel
  BY <1>1 DEF IInv, Typed, Records
<1>2. ASSUME NEW r \in DOMAIN requests, ReliesOn(requests[r], kel) PROVE kel \in Kels
  BY <1>2, RequestTyped DEF ReliesOn, IInv, InPhaseOK, Records
<1> QED
  BY <1>1, <1>2 DEF Relied

\* What the tokens show follows from what is known of the logs relied on.
LEMMA ReliedShows == ReliedRecorded => RecordedBeforeChallenge
BY DEF ReliedRecorded, RecordedBeforeChallenge, Relied, Recorded, Slot, OwnAt

\* A step that moves one request on and leaves the events alone keeps what the
\* requests know of them, if it relies on no other log than before, or only on one
\* that is recorded, by the submission that recorded it.
LEMMA RAdvance ==
    ASSUME IInv, RInv, NEW r \in DOMAIN requests, DOMAIN requests' = DOMAIN requests,
           \A x \in DOMAIN requests \ {r} : requests'[x] = requests[x],
           UNCHANGED events,
           \A t \in Tokens : login'[t] # Null => Relied(login'[t].kel),
           Knows(requests[r])',
           IsRecording(requests'[r]) => IsRecording(requests[r]),
           \A k : Relied(k) => Apart(requests'[r], k),
           \A k : ReliesOn(requests'[r], k) =>
               Relied(k) \/ (Recorded(k) /\ IsRecording(requests[r]) /\ ~ IsRecording(requests'[r]))
    PROVE  RInv'
<1>1. OneRecords'
  <2>1. Recording' \subseteq Recording
    <3>1. \A x \in Recording' : x \in DOMAIN requests' /\ IsRecording(requests'[x])
      BY DEF Recording, IsRecording, At
    <3> QED
      BY <3>1, RecordingIs
  <2> QED
    BY <2>1 DEF OneRecords, RInv
<1>2. AllKnow'
  <2> SUFFICES ASSUME NEW x \in DOMAIN requests' PROVE Knows(requests[x])'
    BY DEF AllKnow
  <2>1. CASE x = r
    BY <2>1
  <2>2. CASE x # r
    <3>1. Knows(requests[x]) /\ requests'[x] = requests[x]
      BY <2>2 DEF RInv, AllKnow
    <3> QED
      BY <3>1 DEF Knows, Clear, Slot
  <2> QED
    BY <2>1, <2>2
<1>3. \A k : Relied(k)' => Relied(k) \/ (Recorded(k) /\ IsRecording(requests[r]) /\ ~ IsRecording(requests'[r]))
  <2> SUFFICES ASSUME NEW k, Relied(k)'
               PROVE  Relied(k) \/ (Recorded(k) /\ IsRecording(requests[r]) /\ ~ IsRecording(requests'[r]))
    OBVIOUS
  <2>1. CASE \E t \in Tokens : login'[t] # Null /\ k = login'[t].kel
    BY <2>1
  <2>2. ASSUME NEW x \in DOMAIN requests', ReliesOn(requests'[x], k)
        PROVE  Relied(k) \/ (Recorded(k) /\ IsRecording(requests[r]) /\ ~ IsRecording(requests'[r]))
    <3>1. CASE x = r
      BY <2>2, <3>1
    <3>2. CASE x # r
      BY <2>2, <3>2 DEF Relied
    <3> QED
      BY <3>1, <3>2
  <2> QED
    BY <2>1, <2>2 DEF Relied, ReliesOn
<1>4. ReliedRecorded'
  BY <1>3 DEF ReliedRecorded, RInv, Recorded, Slot
<1>5. AllApart'
  <2> SUFFICES ASSUME NEW x \in DOMAIN requests', NEW k, Relied(k)' PROVE Apart(requests'[x], k)
    BY DEF AllApart, Apart
  <2>1. CASE Relied(k)
    BY <2>1 DEF AllApart, RInv
  <2>2. CASE ~ Relied(k)
    <3>1. IsRecording(requests[r]) /\ ~ IsRecording(requests'[r])
      BY <1>3, <2>2
    <3>2. ~ IsRecording(requests'[x])
      BY <3>1, RecordingIs DEF RInv, OneRecords
    <3> QED
      BY <3>2 DEF Apart, IsRecording
  <2> QED
    BY <2>1, <2>2
<1> QED
  BY <1>1, <1>2, <1>4, <1>5 DEF RInv

\* What has been read of the slots is what they still hold.
LEMMA RRead ==
    ASSUME IInv, RInv, NEW r \in DOMAIN requests, NEW x \in Positions, ReadEvent(r, x)
    PROVE  RInv'
<1>1. PICK kel \in Kels : kel = requests[r].kel /\ requests[r] \in SubmissionsOf(kel)
  BY RequestTyped DEF ReadEvent, At, IInv
<1> DEFINE q == [requests[r] EXCEPT !.pending = @ \ {x}, !.seen[x] = Slot(kel, x)]
<1>2. /\ requests[r].pc = "reading" /\ x \in requests[r].pending /\ UNCHANGED <<events, login>>
      /\ requests' = [requests EXCEPT ![r] = q]
  BY <1>1 DEF ReadEvent, At, Slot
<1>3. requests[r].seen \in [DOMAIN kel.events -> Digests \cup {Null}]
  BY <1>1, SubmissionFields
<1>4. /\ q.pc = "reading" /\ q.kel = kel /\ q.pending = requests[r].pending \ {x}
      /\ q.seen = [requests[r].seen EXCEPT ![x] = Slot(kel, x)]
  BY <1>1, <1>2, SubmissionFields
<1>5. requests'[r] = q
  BY <1>2
<1> HIDE DEF q
<1>6. \A y \in DOMAIN kel.events : requests[r].seen[y] = IF y \in requests[r].pending THEN Null ELSE Slot(kel, y)
  BY <1>1, <1>2 DEF RInv, AllKnow, Knows
<1>7. \A y \in DOMAIN kel.events : q.seen[y] = IF y \in q.pending THEN Null ELSE Slot(kel, y)
  BY <1>2, <1>3, <1>4, <1>6
<1>8. Knows(requests[r])'
  BY <1>2, <1>4, <1>5, <1>7 DEF Knows, Slot
<1>9. \A k : ~ ReliesOn(requests'[r], k) /\ Apart(requests'[r], k)
  BY <1>4, <1>5 DEF ReliesOn, Apart
<1>10. \A t \in Tokens : login'[t] # Null => Relied(login'[t].kel)
  BY <1>2 DEF Relied
<1> QED
  BY <1>2, <1>8, <1>9, <1>10, RAdvance DEF IsRecording

\* A submission that is not refused has seen in every slot nothing or its own event, and
\* where it has seen nothing there is no event of a log that is relied on.
LEMMA RCompare ==
    ASSUME IInv, RInv, NEW r \in DOMAIN requests, Compare(r)
    PROVE  RInv'
<1>1. PICK kel \in Kels : kel = requests[r].kel /\ requests[r] \in SubmissionsOf(kel)
  BY RequestTyped DEF Compare, At, IInv
<1> DEFINE empty == {x \in DOMAIN requests[r].seen : requests[r].seen[x] = Null}
           accepted == [requests[r] EXCEPT !.pc = "recording", !.pending = empty]
<1>2. requests[r].pc = "reading" /\ requests[r].pending = {} /\ UNCHANGED <<events, login>>
  BY DEF Compare, At
<1>3. DOMAIN requests[r].seen = DOMAIN kel.events
  BY <1>1, SubmissionFields
<1>4. \A x \in DOMAIN kel.events : requests[r].seen[x] = Slot(kel, x)
  BY <1>1, <1>2 DEF RInv, AllKnow, Knows
<1>5. IsRecording(requests[r]) /\ \A t \in Tokens : login'[t] # Null => Relied(login'[t].kel)
  BY <1>2 DEF IsRecording, Relied
<1>6. CASE Conflicts(requests[r])
  <2>1. requests' = [requests EXCEPT ![r].pc = "done", ![r].status = 409]
    BY <1>6 DEF Compare, Answer
  <2>2. requests'[r].pc = "done"
    BY <1>1, <2>1, SubmissionFields
  <2>3. Knows(requests[r])' /\ \A k : ~ ReliesOn(requests'[r], k) /\ Apart(requests'[r], k)
    BY <2>2 DEF Knows, ReliesOn, Apart
  <2> QED
    BY <1>2, <1>5, <2>1, <2>3, RAdvance
<1>7. CASE ~ Conflicts(requests[r])
  <2>1. requests' = [requests EXCEPT ![r] = accepted]
    BY <1>7 DEF Compare
  <2>2. /\ requests'[r].pc = "recording" /\ requests'[r].kel = kel /\ requests'[r].pending = empty
        /\ requests'[r].seen = requests[r].seen
    BY <1>1, <2>1, SubmissionFields
  <2>3. \A x \in DOMAIN kel.events : Slot(kel, x) \in {Null, kel.events[x].d} /\ kel.events[x].d \in OwnAt(kel, x)
    BY <1>1, <1>3, <1>4, <1>7 DEF Conflicts, OwnAt, EventsAt
  <2>4. \A x \in empty : x \in DOMAIN kel.events /\ Slot(kel, x) = Null
    BY <1>3, <1>4
  <2>5. \A x \in DOMAIN kel.events \ empty : Slot(kel, x) \in OwnAt(kel, x)
    BY <1>3, <1>4, <2>3
  <2>6. DOMAIN requests' = DOMAIN requests /\ \A x \in DOMAIN requests \ {r} : requests'[x] = requests[x]
    BY <2>1
  <2> HIDE DEF empty, accepted
  <2>7. Knows(requests[r])'
    <3>1. \A x \in empty, y \in DOMAIN kel.events :
             kel.events[y].s = kel.events[x].s => requests[r].seen[y] = Null
      BY <1>4, <2>4 DEF Slot
    <3> QED
      BY <1>2, <2>2, <2>4, <2>5, <3>1 DEF Knows, Clear, Slot
  <2>8. \A k : Relied(k) => Apart(requests'[r], k)
    <3> SUFFICES ASSUME NEW k, Relied(k), NEW x \in empty, NEW y \in DOMAIN k.events,
                        k.aid = kel.aid, k.events[y].s = kel.events[x].s
                 PROVE  FALSE
      BY <2>2 DEF Apart
    <3>1. k \in Kels /\ Recorded(k)
      BY ReliedTyped DEF RInv, ReliedRecorded
    <3>2. Slot(k, y) # Null
      BY <3>1, OwnEvents DEF Recorded
    <3> QED
      BY <2>4, <3>2 DEF Slot
  <2>9. \A k : ReliesOn(requests'[r], k) => Recorded(k) /\ ~ IsRecording(requests'[r])
    BY <2>2, <2>5 DEF ReliesOn, Recorded, IsRecording
  <2> QED
    BY <1>2, <1>5, <2>6, <2>7, <2>8, <2>9, RAdvance
<1> QED
  BY <1>6, <1>7

\* A submission that fails forgets what it read; the writes it has begun still land.
LEMMA RFails ==
    ASSUME IInv, RInv, NEW r \in DOMAIN requests, RecordingFails(r)
    PROVE  RInv'
<1>1. PICK kel \in Kels : kel = requests[r].kel /\ requests[r] \in SubmissionsOf(kel)
  BY RequestTyped DEF RecordingFails, At, IInv
<1>2. requests[r].pc \in {"reading", "recording"} /\ UNCHANGED <<events, login>>
  BY DEF RecordingFails, At
<1>3. PICK x \in requests[r].pending :
          requests' = [requests EXCEPT ![r].pc = "failed", ![r].status = 500,
                ![r].pending = IF requests[r].pc = "reading" THEN {} ELSE @ \ {x}]
  BY DEF RecordingFails
<1> DEFINE left == IF requests[r].pc = "reading" THEN {} ELSE requests[r].pending \ {x}
           q == [requests[r] EXCEPT !.pc = "failed", !.status = 500, !.pending = left]
<1>4. requests' = [requests EXCEPT ![r] = q]
  <2>1. requests' = [requests EXCEPT ![r].pc = "failed", ![r].status = 500, ![r].pending = left]
    BY <1>3, Zenon
  <2> HIDE DEF left
  <2> QED
    BY <2>1
<1>5. left = {} \/ (requests[r].pc = "recording" /\ left \subseteq requests[r].pending)
  BY <1>2
<1> HIDE DEF left
<1>6. q.pc = "failed" /\ q.kel = kel /\ q.pending = left /\ q.seen = requests[r].seen
  BY <1>1, SubmissionFields
<1> HIDE DEF q
<1>7. /\ requests'[r].pc = "failed" /\ requests'[r].kel = kel /\ requests'[r].pending = left
      /\ requests'[r].seen = requests[r].seen
  BY <1>4, <1>6
<1>8. DOMAIN requests' = DOMAIN requests /\ \A y \in DOMAIN requests \ {r} : requests'[y] = requests[y]
  BY <1>4
<1>9. Knows(requests[r])' /\ \A k : Relied(k) => Apart(requests'[r], k)
  <2>1. CASE left = {}
    BY <1>7, <2>1 DEF Knows, Clear, Apart
  <2>2. CASE requests[r].pc = "recording" /\ left \subseteq requests[r].pending
    <3>1. Clear(requests[r]) /\ \A k : Relied(k) => Apart(requests[r], k)
      BY <2>2 DEF RInv, AllKnow, Knows, AllApart
    <3>2. Clear(requests[r])'
      BY <1>1, <1>2, <1>7, <2>2, <3>1 DEF Clear, Slot
    <3>3. \A k : Relied(k) => Apart(requests'[r], k)
      BY <1>1, <1>7, <2>2, <3>1 DEF Apart
    <3> QED
      BY <1>7, <3>2, <3>3 DEF Knows
  <2> QED
    BY <1>5, <2>1, <2>2
<1>10. \A k : ~ ReliesOn(requests'[r], k)
  BY <1>7 DEF ReliesOn
<1>11. IsRecording(requests'[r]) => IsRecording(requests[r])
  BY <1>2, <1>5, <1>7 DEF IsRecording
<1>12. \A t \in Tokens : login'[t] # Null => Relied(login'[t].kel)
  BY <1>2 DEF Relied
<1> QED
  BY <1>2, <1>8, <1>9, <1>10, <1>11, <1>12, RAdvance

\* A challenge is issued when nothing is left to write, so the log is one that is
\* relied on already.
LEMMA RIssue ==
    ASSUME IInv, RInv, NEW r \in DOMAIN requests, IssueChallenge(r) \/ WriteWords(r) \/ Challenge(r)
    PROVE  RInv'
<1>1. PICK kel \in Kels : kel = requests[r].kel /\ requests[r] \in SubmissionsOf(kel)
  BY RequestTyped DEF IssueChallenge, WriteWords, Challenge, At, IInv
<1>2. UNCHANGED <<events, login>>
  BY DEF IssueChallenge, WriteWords, Challenge
<1>3. DOMAIN requests' = DOMAIN requests /\ \A x \in DOMAIN requests \ {r} : requests'[x] = requests[x]
  BY DEF IssueChallenge, WriteWords, Challenge, Answer
<1>4. ReliesOn(requests[r], kel)
  BY <1>1 DEF IssueChallenge, WriteWords, Challenge, At, ReliesOn
<1>5. requests'[r].pc = "done" \/ (requests'[r].pc = "issuing" /\ requests'[r].kel = kel)
  <2>1. CASE IssueChallenge(r)
    BY <1>1, <2>1, SubmissionFields DEF IssueChallenge
  <2>2. CASE WriteWords(r)
    <3>1. requests'[r].pc = requests[r].pc /\ requests'[r].kel = kel
      BY <1>1, <2>2, SubmissionFields DEF WriteWords
    <3> QED
      BY <2>2, <3>1 DEF WriteWords, At
  <2>3. CASE Challenge(r)
    BY <1>1, <2>3, SubmissionFields DEF Challenge, Answer
  <2> QED
    BY <2>1, <2>2, <2>3
<1>6. Knows(requests[r])' /\ \A k : Apart(requests'[r], k)
  BY <1>5 DEF Knows, Apart
<1>7. \A k : ReliesOn(requests'[r], k) => Relied(k)
  BY <1>4, <1>5 DEF ReliesOn, Relied
<1>8. \A t \in Tokens : login'[t] # Null => Relied(login'[t].kel)
  BY <1>2 DEF Relied
<1> QED
  BY <1>2, <1>3, <1>5, <1>6, <1>7, <1>8, RAdvance DEF IsRecording

\* The login record is for the log that its submission has recorded.
LEMMA RWriteLogin ==
    ASSUME IInv, RInv, NEW r \in DOMAIN requests, WriteLogin(r)
    PROVE  RInv'
<1>1. PICK kel \in Kels : kel = requests[r].kel /\ requests[r] \in SubmissionsOf(kel)
  BY RequestTyped DEF WriteLogin, At, IInv
<1>2. PICK t \in Tokens : t = requests[r].token
  BY <1>1, SubmissionFields
<1>3. /\ requests[r].pc = "issuing" /\ UNCHANGED events
      /\ requests' = [requests EXCEPT ![r].pending = @ \ {"login"}]
  BY DEF WriteLogin, At
<1>4. Relied(kel)
  BY <1>1, <1>3 DEF Relied, ReliesOn
<1>5. requests'[r].pc = "issuing" /\ requests'[r].kel = kel
  BY <1>1, <1>3, SubmissionFields
<1>6. Knows(requests[r])' /\ \A k : Apart(requests'[r], k)
  BY <1>5 DEF Knows, Apart
<1>7. \A k : ReliesOn(requests'[r], k) => Relied(k)
  BY <1>4, <1>5 DEF ReliesOn
<1>8. \A s \in Tokens : login'[s] = login[s] \/ login'[s].kel = kel
  BY <1>1, <1>2 DEF WriteLogin, IInv, Typed
<1>9. \A s \in Tokens : login'[s] # Null => Relied(login'[s].kel)
  BY <1>4, <1>8 DEF Relied
<1> QED
  BY <1>3, <1>5, <1>6, <1>7, <1>9, RAdvance DEF IsRecording

\* Looking up a token does not concern the events.
LEMMA RLookUp ==
    ASSUME IInv, RInv, NEW r \in DOMAIN requests, LookUpToken(r) \/ Unknown(r) \/ Used(r)
    PROVE  RInv'
<1>1. requests[r].pc \in {"lookup", "found"} /\ UNCHANGED <<events, login>>
  BY DEF LookUpToken, Unknown, Used, At
<1>2. requests[r] \in Responses
  BY <1>1, RequestTyped DEF IInv
<1>3. DOMAIN requests' = DOMAIN requests /\ \A x \in DOMAIN requests \ {r} : requests'[x] = requests[x]
  BY DEF LookUpToken, Unknown, Used, Answer
<1>4. requests'[r].pc \in {"found", "done"}
  BY <1>2, ResponseFields DEF LookUpToken, Unknown, Used, Answer
<1>5. Knows(requests[r])' /\ \A k : ~ ReliesOn(requests'[r], k) /\ Apart(requests'[r], k)
  BY <1>4 DEF Knows, ReliesOn, Apart
<1>6. \A t \in Tokens : login'[t] # Null => Relied(login'[t].kel)
  BY <1>1 DEF Relied
<1> QED
  BY <1>1, <1>3, <1>4, <1>5, <1>6, RAdvance DEF IsRecording

\* The outcome carries the log of the record it was decided on.
LEMMA RJudge ==
    ASSUME IInv, RInv, NEW r \in DOMAIN requests, Refuse(r) \/ Accept(r)
    PROVE  RInv'
<1>1. requests[r].pc = "found" /\ Matches(r) /\ UNCHANGED <<events, login>>
  BY DEF Refuse, Accept, Matches, At
<1>2. requests[r] \in Responses /\ requests[r].token \in Tokens
  BY <1>1, RequestTyped DEF IInv, InPhaseOK
<1>3. DOMAIN requests' = DOMAIN requests /\ \A x \in DOMAIN requests \ {r} : requests'[x] = requests[x]
  BY DEF Refuse, Accept, Save
<1>4. LoginOf(r) # Null /\ LoginOf(r).phase = "challenged"
  BY <1>1 DEF Matches, InPhase
<1>5. Relied(LoginOf(r).kel) /\ LoginOf(r) \in Records
  BY <1>2, <1>4 DEF Relied, LoginOf, IInv, Typed
<1>6. requests'[r].pc = "saving" /\ requests'[r].record.kel = LoginOf(r).kel
  <2>1. CASE Refuse(r)
    <3>. PICK error : error = IF SignedBy(requests[r].kel, LoginOf(r)) THEN 409 ELSE 400
      OBVIOUS
    <3>1. requests'[r].pc = "saving" /\ requests'[r].record = [LoginOf(r) EXCEPT !.error = error]
      BY <1>2, <2>1, ResponseFields DEF Refuse, Save
    <3>2. [LoginOf(r) EXCEPT !.error = error].kel = LoginOf(r).kel
      BY <1>4, <1>5 DEF Records
    <3> QED
      BY <3>1, <3>2
  <2>2. CASE Accept(r)
    BY <1>2, <2>2, ResponseFields DEF Accept, Save
  <2> QED
    BY <2>1, <2>2
<1>7. Knows(requests[r])' /\ \A k : Apart(requests'[r], k)
  BY <1>6 DEF Knows, Apart
<1>8. \A k : ReliesOn(requests'[r], k) => Relied(k)
  BY <1>5, <1>6 DEF ReliesOn
<1>9. \A t \in Tokens : login'[t] # Null => Relied(login'[t].kel)
  BY <1>1 DEF Relied
<1> QED
  BY <1>1, <1>3, <1>6, <1>7, <1>8, <1>9, RAdvance DEF IsRecording

\* The outcome that is written is for a log that is relied on.
LEMMA RWriteOutcome ==
    ASSUME IInv, RInv, NEW r \in DOMAIN requests, WriteOutcome(r)
    PROVE  RInv'
<1>1. requests[r].pc = "saving" /\ UNCHANGED events
  BY DEF WriteOutcome, At
<1>2. requests[r] \in Responses /\ requests[r].token \in Tokens
  BY <1>1, RequestTyped DEF IInv, InPhaseOK
<1>3. DOMAIN requests' = DOMAIN requests /\ \A x \in DOMAIN requests \ {r} : requests'[x] = requests[x]
  BY DEF WriteOutcome, Answer
<1>4. Relied(requests[r].record.kel)
  BY <1>1 DEF Relied, ReliesOn
<1>5. requests'[r].pc = "done"
  BY <1>2, ResponseFields DEF WriteOutcome, Answer
<1>6. Knows(requests[r])' /\ \A k : ~ ReliesOn(requests'[r], k) /\ Apart(requests'[r], k)
  BY <1>5 DEF Knows, ReliesOn, Apart
<1>7. \A s \in Tokens : login'[s] = login[s] \/ login'[s] = requests[r].record
  BY <1>2 DEF WriteOutcome, IInv, Typed
<1>8. \A s \in Tokens : login'[s] # Null => Relied(login'[s].kel)
  BY <1>4, <1>7 DEF Relied
<1> QED
  BY <1>1, <1>3, <1>5, <1>6, <1>8, RAdvance DEF IsRecording

\* A request that arrives relies on nothing; it may be a submission when none is
\* recording.
LEMMA RArrive ==
    ASSUME IInv, RInv, NEW q, requests' = Append(requests, q), UNCHANGED <<events, login>>,
           \/ q.pc = "lookup"
           \/ /\ q.pc = "reading" /\ Recording = {}
              /\ q.pending = DOMAIN q.kel.events /\ \A x \in DOMAIN q.kel.events : q.seen[x] = Null
    PROVE  RInv'
<1> DEFINE n == Len(requests) + 1
<1>1. /\ DOMAIN requests' = 1 .. n /\ DOMAIN requests = 1 .. n - 1 /\ n \in Nat
      /\ requests'[n] = q /\ \A x \in DOMAIN requests : requests'[x] = requests[x]
  BY DEF IInv, Typed
<1> HIDE DEF n
<1>2. \A x \in DOMAIN requests' : x = n \/ (x \in DOMAIN requests /\ requests'[x] = requests[x])
  BY <1>1
<1>3. OneRecords'
  <2>1. \A x \in Recording' : x \in DOMAIN requests' /\ IsRecording(requests'[x])
    BY DEF Recording, IsRecording, At
  <2>2. \A x \in Recording' : x \in Recording \/ (x = n /\ Recording = {})
    BY <1>1, <1>2, <2>1, RecordingIs DEF IsRecording
  <2> QED
    BY <2>2 DEF OneRecords, RInv
<1>4. AllKnow'
  <2> SUFFICES ASSUME NEW x \in DOMAIN requests' PROVE Knows(requests[x])'
    BY DEF AllKnow
  <2>1. CASE x = n
    BY <1>1, <2>1 DEF Knows
  <2>2. CASE x # n
    <3>1. x \in DOMAIN requests /\ requests'[x] = requests[x] /\ Knows(requests[x])
      BY <1>2, <2>2 DEF RInv, AllKnow
    <3> QED
      BY <3>1 DEF Knows, Clear, Slot
  <2> QED
    BY <2>1, <2>2
<1>5. \A k : Relied(k)' => Relied(k)
  <2>1. \A k : ~ ReliesOn(q, k)
    BY DEF ReliesOn
  <2> QED
    BY <1>1, <1>2, <2>1 DEF Relied
<1>6. ReliedRecorded'
  BY <1>5 DEF ReliedRecorded, RInv, Recorded, Slot
<1>7. AllApart'
  <2>1. \A k : Apart(q, k)
    BY DEF Apart
  <2>2. \A x \in DOMAIN requests' : \A k : Relied(k)' => Apart(requests'[x], k)
    BY <1>1, <1>2, <1>5, <2>1 DEF AllApart, RInv
  <2> QED
    BY <2>2 DEF AllApart, Apart
<1> QED
  BY <1>3, <1>4, <1>6, <1>7 DEF RInv

\* A submission starts to record when no other one is recording.
LEMMA RSubmit ==
    ASSUME MaxRecording <= 1, IInv, RInv, NEW t \in Tokens, NEW kel \in Kels, Submit(t, kel)
    PROVE  RInv'
<1> DEFINE q == [pc |-> "reading", status |-> Null, token |-> t, kel |-> kel,
                 pending |-> DOMAIN kel.events, seen |-> [x \in DOMAIN kel.events |-> Null]]
<1>1. /\ requests' = Append(requests, q) /\ UNCHANGED <<events, login>> /\ Cardinality(Recording) < MaxRecording
  BY DEF Submit, Arrive
<1>2. /\ q.pc = "reading" /\ q.kel = kel /\ q.pending = DOMAIN kel.events
      /\ q.seen = [x \in DOMAIN kel.events |-> Null]
  OBVIOUS
<1> HIDE DEF q
<1>3. Recording = {}
  <2>1. requests \in Seq(Submissions \cup Responses)
    BY DEF IInv, Typed
  <2>2. DOMAIN requests = 1 .. Len(requests) /\ Len(requests) \in Nat
    BY <2>1
  <2>3. Recording \subseteq 1 .. Len(requests)
    BY <2>2, RecordingIs
  <2>4. IsFiniteSet(Recording)
    <3>1. IsFiniteSet(1 .. Len(requests))
      BY <2>2, FS_Interval
    <3> QED
      BY <2>3, <3>1, FS_Subset
  <2>5. Cardinality(Recording) \in Nat
    BY <2>4, FS_CardinalityType
  <2>6. Cardinality(Recording) = 0
    BY <1>1, <2>5, LoginAssumption
  <2> QED
    BY <2>4, <2>6, FS_EmptySet
<1> QED
  BY <1>1, <1>2, <1>3, RArrive

\* A response records nothing.
LEMMA RRespond ==
    ASSUME IInv, RInv, NEW w \in 1 .. MaxRequests, NEW kel \in Kels, Respond(w, kel)
    PROVE  RInv'
<1> DEFINE q == [pc |-> "lookup", status |-> Null, token |-> Null, kel |-> kel,
                 words |-> w, record |-> Null]
<1>1. /\ requests' = Append(requests, q) /\ UNCHANGED <<events, login>>
  BY DEF Respond, Arrive
<1>2. q.pc = "lookup"
  OBVIOUS
<1> HIDE DEF q
<1> QED
  BY <1>1, <1>2, RArrive

\* A write goes to a slot that is empty or that this submission has filled itself,
\* with another event of its log: nobody else has recorded since it looked. It touches
\* no other slot.
LEMMA WriteOwn ==
    ASSUME IInv, RInv, NEW r \in DOMAIN requests, NEW x \in Positions, WriteEvent(r, x)
    PROVE  \E kel \in Kels :
              /\ kel = requests[r].kel /\ requests[r] \in SubmissionsOf(kel) /\ r \in Recording
              /\ requests[r].pc \in {"recording", "failed"} /\ x \in requests[r].pending
              /\ x \in DOMAIN kel.events /\ Clear(requests[r])
              /\ \A aid \in Aids, sn \in SequenceNumbers :
                    events'[aid][sn] = IF aid = kel.aid /\ sn = kel.events[x].s THEN kel.events[x].d ELSE events[aid][sn]
<1>1. PICK kel \in Kels : kel = requests[r].kel /\ requests[r] \in SubmissionsOf(kel)
  BY RequestTyped DEF WriteEvent, At, IInv
<1>2. /\ requests[r].pc \in {"recording", "failed"} /\ x \in requests[r].pending
      /\ requests[r].pending \subseteq DOMAIN kel.events
  BY <1>1, RequestTyped DEF WriteEvent, At, InPhaseOK, IInv
<1>3. Clear(requests[r])
  BY <1>2 DEF RInv, AllKnow, Knows
<1>4. events' = [events EXCEPT ![kel.aid][kel.events[x].s] = kel.events[x].d]
  BY <1>1 DEF WriteEvent
<1>5. \A aid \in Aids, sn \in SequenceNumbers :
         events'[aid][sn] = IF aid = kel.aid /\ sn = kel.events[x].s THEN kel.events[x].d ELSE events[aid][sn]
  BY <1>4 DEF IInv, Typed
<1>6. r \in Recording
  BY <1>2, RecordingIs DEF IsRecording
<1> QED
  BY <1>1, <1>2, <1>3, <1>5, <1>6

\* A write gives one slot an event of its submission, and no log that is relied on has
\* an event with that number.
LEMMA RWriteEvent ==
    ASSUME IInv, RInv, NEW r \in DOMAIN requests, NEW x \in Positions, WriteEvent(r, x)
    PROVE  RInv'
<1>1. PICK kel \in Kels :
         /\ kel = requests[r].kel /\ requests[r] \in SubmissionsOf(kel) /\ r \in Recording
         /\ requests[r].pc \in {"recording", "failed"} /\ x \in requests[r].pending
         /\ x \in DOMAIN kel.events /\ Clear(requests[r])
         /\ \A aid \in Aids, sn \in SequenceNumbers :
               events'[aid][sn] = IF aid = kel.aid /\ sn = kel.events[x].s THEN kel.events[x].d ELSE events[aid][sn]
  BY WriteOwn
<1>2. requests' = [requests EXCEPT ![r].pending = @ \ {x}] /\ UNCHANGED login
  BY DEF WriteEvent
<1>3. /\ DOMAIN requests' = DOMAIN requests /\ \A y \in DOMAIN requests \ {r} : requests'[y] = requests[y]
      /\ requests'[r].pc = requests[r].pc /\ requests'[r].kel = kel
      /\ requests'[r].pending = requests[r].pending \ {x} /\ requests'[r].seen = requests[r].seen
  BY <1>1, <1>2, SubmissionFields
<1>4. \A k \in Kels : \A y \in DOMAIN k.events :
         Slot(k, y)' = IF k.aid = kel.aid /\ k.events[y].s = kel.events[x].s THEN kel.events[x].d ELSE Slot(k, y)
  BY <1>1, SlotOf DEF Slot
<1>5. requests[r].pending \subseteq DOMAIN kel.events
  BY <1>1, RequestTyped DEF InPhaseOK, IInv
<1>6. \A y \in DOMAIN requests : y # r => ~ IsRecording(requests'[y])
  BY <1>1, <1>3, RecordingIs DEF RInv, OneRecords
<1>7. OneRecords'
  <2>1. \A y \in Recording' : y \in DOMAIN requests' /\ IsRecording(requests'[y])
    BY DEF Recording, IsRecording, At
  <2>2. \A y \in Recording' : y = r
    BY <1>3, <1>6, <2>1
  <2> QED
    BY <2>2 DEF OneRecords
<1>8. \A y \in DOMAIN kel.events : Slot(kel, y) \in OwnAt(kel, y) => Slot(kel, y)' \in OwnAt(kel, y)
  BY <1>1, <1>4 DEF OwnAt, EventsAt
<1>9. Knows(requests[r])'
  <2>1. Knows(requests[r])
    BY DEF RInv, AllKnow
  <2>2. \A y \in requests[r].pending : Slot(kel, y)' \in {Null} \cup OwnAt(kel, y)
    <3> SUFFICES ASSUME NEW y \in requests[r].pending PROVE Slot(kel, y)' \in {Null} \cup OwnAt(kel, y)
      OBVIOUS
    <3>1. y \in DOMAIN kel.events /\ Slot(kel, y) \in {Null} \cup OwnAt(kel, y)
      BY <1>1, <1>5 DEF Clear
    <3>2. CASE kel.events[y].s = kel.events[x].s
      BY <1>1, <1>4, <3>1, <3>2 DEF OwnAt, EventsAt
    <3>3. CASE kel.events[y].s # kel.events[x].s
      BY <1>4, <3>1, <3>3
    <3> QED
      BY <3>2, <3>3
  <2>3. Clear(requests[r])'
    <3>1. \A y \in requests[r].pending, z \in DOMAIN kel.events :
             kel.events[z].s = kel.events[y].s => requests[r].seen[z] = Null
      BY <1>1 DEF Clear
    <3> QED
      BY <1>3, <2>2, <3>1 DEF Clear, Slot
  <2>4. requests[r].pc = "recording" =>
           \A y \in DOMAIN kel.events \ (requests[r].pending \ {x}) : Slot(kel, y)' \in OwnAt(kel, y)
    <3> SUFFICES ASSUME requests[r].pc = "recording", NEW y \in DOMAIN kel.events \ (requests[r].pending \ {x})
                 PROVE  Slot(kel, y)' \in OwnAt(kel, y)
      OBVIOUS
    <3>1. CASE y = x
      BY <1>1, <1>4, <3>1 DEF OwnAt, EventsAt
    <3>2. CASE y # x
      BY <1>1, <1>8, <2>1, <3>2 DEF Knows
    <3> QED
      BY <3>1, <3>2
  <2> QED
    BY <1>1, <1>3, <2>3, <2>4 DEF Knows, Slot
<1>10. \A k : Relied(k) => Recorded(k)'
  <2> SUFFICES ASSUME NEW k, Relied(k), NEW y \in DOMAIN k.events PROVE Slot(k, y)' \in OwnAt(k, y)
    BY DEF Recorded, Slot
  <2>1. k \in Kels /\ Slot(k, y) \in OwnAt(k, y) /\ Apart(requests[r], k)
    BY ReliedTyped DEF RInv, ReliedRecorded, Recorded, AllApart
  <2>2. ~ (k.aid = kel.aid /\ k.events[y].s = kel.events[x].s)
    BY <1>1, <2>1 DEF Apart
  <2> QED
    BY <1>4, <2>1, <2>2
<1>11. \A k : Relied(k)' => Relied(k) \/ (k = kel /\ Recorded(kel)' /\ ~ IsRecording(requests'[r]))
  <2> SUFFICES ASSUME NEW k, Relied(k)', ~ Relied(k)
               PROVE  k = kel /\ Recorded(kel)' /\ ~ IsRecording(requests'[r])
    OBVIOUS
  <2>1. ReliesOn(requests'[r], k)
    BY <1>2, <1>3 DEF Relied, ReliesOn
  <2>2. requests'[r].pc = "recording" /\ requests'[r].pending = {} /\ k = kel
    BY <1>1, <1>3, <2>1 DEF ReliesOn
  <2>3. Recorded(kel)'
    BY <1>3, <1>9, <2>2 DEF Knows, Recorded, Slot
  <2> QED
    BY <2>2, <2>3 DEF IsRecording
<1>12. ReliedRecorded'
  BY <1>10, <1>11 DEF ReliedRecorded, Recorded, Slot
<1>13. AllApart'
  <2> SUFFICES ASSUME NEW y \in DOMAIN requests', NEW k, Relied(k)' PROVE Apart(requests'[y], k)
    BY DEF AllApart, Apart
  <2>1. CASE ~ IsRecording(requests'[y])
    BY <2>1 DEF Apart, IsRecording
  <2>2. CASE IsRecording(requests'[y])
    <3>1. y = r /\ Relied(k)
      BY <1>3, <1>6, <1>11, <2>2
    <3>2. Apart(requests[r], k)
      BY <3>1 DEF RInv, AllApart
    <3> QED
      BY <1>1, <1>3, <3>1, <3>2 DEF Apart
  <2> QED
    BY <2>1, <2>2
<1>14. AllKnow'
  <2> SUFFICES ASSUME NEW y \in DOMAIN requests', y # r PROVE Knows(requests[y])'
    BY <1>9 DEF AllKnow
  <2>1. y \in DOMAIN requests /\ requests'[y] = requests[y] /\ ~ IsRecording(requests[y])
    BY <1>3, <1>6
  <2>2. CASE requests[y].pc = "recording"
    <3>1. requests[y].pending = {} /\ Relied(requests[y].kel)
      BY <2>1, <2>2 DEF IsRecording, ReliesOn, Relied
    <3>2. PICK k : k = requests[y].kel
      OBVIOUS
    <3>3. Recorded(k)'
      BY <1>10, <3>1, <3>2
    <3> QED
      BY <2>1, <2>2, <3>1, <3>2, <3>3 DEF Knows, Clear, Recorded, Slot
  <2>3. CASE requests[y].pc # "recording"
    BY <2>1, <2>3 DEF Knows, Clear, IsRecording
  <2> QED
    BY <2>2, <2>3
<1> QED
  BY <1>7, <1>12, <1>13, <1>14 DEF RInv

\* What a step may do to a stored event: FirstSeenStable of one slot.
ReplacedByOwn(aid, sn) ==
    \E r \in Recording : LET kel == requests[r].kel IN
        /\ kel.aid = aid
        /\ {events[aid][sn], events'[aid][sn]} \subseteq EventsAt(kel, sn)
        /\ \A x \in DOMAIN kel.events : kel.events[x].s = sn => requests[r].seen[x] = Null

LEMMA InitRInv == Init => RInv
BY DEF Init, RInv, OneRecords, AllKnow, Relied, ReliedRecorded, AllApart, Recording

\* Every step keeps what the requests know of the events, when one submission records
\* at a time.
LEMMA NextRInv ==
    ASSUME MaxRecording <= 1, IInv, RInv, [Next]_vars
    PROVE  RInv'
<1>1. CASE \E t \in Tokens, kel \in Kels : Submit(t, kel)
  BY <1>1, RSubmit
<1>2. CASE \E w \in 1 .. MaxRequests, kel \in Kels : Respond(w, kel)
  BY <1>2, RRespond
<1>3. ASSUME NEW r \in DOMAIN requests, NEW x \in Positions, ReadEvent(r, x) \/ WriteEvent(r, x)
      PROVE  RInv'
  BY <1>3, RRead, RWriteEvent
<1>4. ASSUME NEW r \in DOMAIN requests,
             \/ Compare(r) \/ RecordingFails(r) \/ IssueChallenge(r)
             \/ WriteLogin(r) \/ WriteWords(r) \/ Challenge(r)
      PROVE  RInv'
  BY <1>4, RCompare, RFails, RIssue, RWriteLogin
<1>5. ASSUME NEW r \in DOMAIN requests,
             LookUpToken(r) \/ Unknown(r) \/ Used(r) \/ Refuse(r) \/ Accept(r) \/ WriteOutcome(r)
      PROVE  RInv'
  BY <1>5, RLookUp, RJudge, RWriteOutcome
<1>6. CASE UNCHANGED <<events, requests>> /\ \A t \in Tokens : login'[t] \in {login[t], Null}
  <2>1. \A k : Relied(k)' => Relied(k)
    BY <1>6 DEF Relied
  <2>2. OneRecords' /\ AllKnow'
    BY <1>6 DEF RInv, OneRecords, AllKnow, Knows, Clear, Slot, Recording, At
  <2>3. ReliedRecorded' /\ AllApart'
    BY <1>6, <2>1 DEF RInv, ReliedRecorded, AllApart, Recorded, Slot
  <2> QED
    BY <2>2, <2>3 DEF RInv
<1>7. CASE Expire
  BY <1>6, <1>7 DEF Expire, IInv, Typed
<1>8. CASE UNCHANGED vars
  BY <1>6, <1>8 DEF vars
<1> QED
  BY <1>1, <1>2, <1>3, <1>4, <1>5, <1>7, <1>8 DEF Next

\* No step replaces a stored event, but for a submission that replaces its own.
LEMMA NeverReplaced ==
    ASSUME IInv, RInv, Next
    PROVE  \A aid \in Aids, sn \in SequenceNumbers :
              events[aid][sn] # Null /\ events'[aid][sn] # events[aid][sn] => ReplacedByOwn(aid, sn)
<1>1. CASE UNCHANGED events
  BY <1>1
<1>2. ASSUME NEW r \in DOMAIN requests, NEW x \in Positions, WriteEvent(r, x),
             NEW aid \in Aids, NEW sn \in SequenceNumbers,
             events[aid][sn] # Null, events'[aid][sn] # events[aid][sn]
      PROVE  ReplacedByOwn(aid, sn)
  <2>1. PICK kel \in Kels :
           /\ kel = requests[r].kel /\ requests[r] \in SubmissionsOf(kel) /\ r \in Recording
           /\ requests[r].pc \in {"recording", "failed"} /\ x \in requests[r].pending
           /\ x \in DOMAIN kel.events /\ Clear(requests[r])
           /\ \A a \in Aids, n \in SequenceNumbers :
                 events'[a][n] = IF a = kel.aid /\ n = kel.events[x].s THEN kel.events[x].d ELSE events[a][n]
    BY <1>2, WriteOwn
  <2>2. aid = kel.aid /\ sn = kel.events[x].s /\ events'[aid][sn] = kel.events[x].d
    BY <1>2, <2>1
  <2>3. events'[aid][sn] \in EventsAt(kel, sn)
    BY <2>1, <2>2 DEF EventsAt
  <2>4. /\ Slot(kel, x) \in {Null} \cup OwnAt(kel, x)
        /\ \A y \in DOMAIN kel.events : kel.events[y].s = kel.events[x].s => requests[r].seen[y] = Null
    BY <2>1 DEF Clear
  <2>5. events[aid][sn] \in EventsAt(kel, sn)
    BY <1>2, <2>2, <2>4 DEF Slot, OwnAt
  <2> QED
    BY <2>1, <2>2, <2>3, <2>4, <2>5 DEF ReplacedByOwn
<1> QED
  BY <1>1, <1>2 DEF Next, Submit, Respond, Arrive, Compare, RecordingFails, IssueChallenge, ReadEvent,
     WriteLogin, WriteWords, Challenge, LookUpToken, Unknown, Used, Refuse, Accept, WriteOutcome, Expire

\* A token is challenged or authenticated only for a log that is recorded, when one
\* submission records at a time (the overlap is accepted at login.ts:71-73), for any
\* logs, with numbers left out or stated twice, any number of requests and of failures.
THEOREM RecordedFirst ==
    ASSUME MaxRecording <= 1
    PROVE  Spec => []RecordedBeforeChallenge
<1>1. IInv /\ RInv /\ [Next]_vars => RInv'
  BY NextRInv
<1>2. RInv => RecordedBeforeChallenge
  BY ReliedShows DEF RInv
<1> QED
  BY <1>1, <1>2, InitIInv, NextIInv, InitRInv, PTL DEF Spec

\* First-seen wins between submissions: under the same condition recordKeyEvents
\* replaces a stored event only by another one of the log that has just brought both.
THEOREM FirstSeen ==
    ASSUME MaxRecording <= 1
    PROVE  Spec => FirstSeenStable
<1>1. IInv /\ RInv /\ [Next]_vars => RInv'
  BY NextRInv
<1>2. IInv /\ RInv /\ [Next]_vars =>
         [\A aid \in Aids, sn \in SequenceNumbers :
             events[aid][sn] # Null /\ events'[aid][sn] # events[aid][sn] => ReplacedByOwn(aid, sn)]_events
  BY NeverReplaced DEF vars
<1> QED
  BY <1>1, <1>2, InitIInv, NextIInv, InitRInv, PTL DEF Spec, FirstSeenStable, ReplacedByOwn
=============================================================================
