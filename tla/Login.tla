-------------------------------- MODULE Login --------------------------------
(***************************************************************************)
(* Logging in with a key event log: packages/keri-infra/src/verifier/       *)
(* login.ts and login-router.ts.                                           *)
(*                                                                         *)
(* A browser holds a token. Submitting a log under the token records its   *)
(* events first-seen and issues a challenge, a list of words; a response   *)
(* signed by the keys of the log authenticates the token. Sessions and key *)
(* events live in a key-value store, every access to it is awaited, and    *)
(* the requests interleave there.                                          *)
(*                                                                         *)
(* A log is abstracted to its identifier and, for each of its events, the   *)
(* sequence number and the digest that the body states; all of them are    *)
(* establishment events. Parsing has verified the log, but append does not *)
(* look at the number (KeyEventLog, SequenceContinuity): two events of a   *)
(* log may state the same one, and a number may be left out. The words of  *)
(* a challenge are random and stand for the submission they were made for. *)
(***************************************************************************)
EXTENDS Naturals, Sequences, FiniteSets

LOCAL INSTANCE SequencesExt

CONSTANTS
    Tokens,
    Kels,           \* the logs submitted: [aid, events], an event being [s, d]
    Null,
    MaxRequests,    \* bound: requests
    MaxRecording,   \* bound: submissions with reads or writes of events pending
    MaxFailures     \* bound: accesses to the store that fail

\* Every event has a digest.
ASSUME LoginAssumption ==
    /\ MaxRequests \in Nat /\ MaxRecording \in Nat /\ MaxFailures \in Nat
    /\ \A kel \in Kels : \A x \in DOMAIN kel.events : kel.events[x].d # Null

VARIABLES
    events,         \* KeyEventStore: aid -> sequence number -> digest or Null
    login,          \* SessionStore login:<token> -> record or Null
    words,          \* SessionStore words:<hash> -> token or Null
    requests,       \* the requests so far, in order of arrival
    failures        \* accesses that failed so far

vars == <<events, login, words, requests, failures>>

Aids == {kel.aid : kel \in Kels}

\* The places in the logs, and the numbers that the events there state.
Positions == UNION {DOMAIN kel.events : kel \in Kels}

SequenceNumbers == UNION {{kel.events[x].s : x \in DOMAIN kel.events} : kel \in Kels}

Init ==
    /\ events = [aid \in Aids |-> [sn \in SequenceNumbers |-> Null]]
    /\ login = [t \in Tokens |-> Null]
    /\ words = [r \in 1 .. MaxRequests |-> Null]
    /\ requests = <<>>
    /\ failures = 0

Arrive(request) ==
    /\ Len(requests) < MaxRequests
    /\ requests' = Append(requests, request)
    /\ UNCHANGED <<events, login, words, failures>>

At(r, pc) == r \in DOMAIN requests /\ requests[r].pc = pc

\* The request is answered with this status.
Answer(r, status) == requests' = [requests EXCEPT ![r].pc = "done", ![r].status = status]

-----------------------------------------------------------------------------
(* handleKelSubmission and handleOobiSubmission, from a verified log on.     *)

\* The submissions between the first read and the last write of events.
Recording == {r \in DOMAIN requests :
    At(r, "reading") \/ (requests[r].pc \in {"recording", "failed"} /\ requests[r].pending # {})}

\* recordKeyEvents reads, for every event of the log, the slot of its number, all at
\* once.
Submit(t, kel) ==
    /\ Cardinality(Recording) < MaxRecording
    /\ Arrive([pc |-> "reading", status |-> Null, token |-> t, kel |-> kel,
               pending |-> DOMAIN kel.events, seen |-> [x \in DOMAIN kel.events |-> Null]])

ReadEvent(r, x) ==
    /\ At(r, "reading") /\ x \in requests[r].pending
    /\ LET kel == requests[r].kel IN
          requests' = [requests EXCEPT ![r].pending = @ \ {x},
                                       ![r].seen[x] = events[kel.aid][kel.events[x].s]]
    /\ UNCHANGED <<events, login, words, failures>>

\* A slot held another event when it was read. The events of the log itself are not
\* compared with each other.
Conflicts(request) ==
    \E x \in DOMAIN request.seen : request.seen[x] \notin {Null, request.kel.events[x].d}

CompareUnseenOnly(r) ==
    /\ At(r, "reading") /\ requests[r].pending = {}
    /\ requests' = [requests EXCEPT ![r].pc = "recording",
            ![r].pending = {x \in DOMAIN requests[r].seen : requests[r].seen[x] = Null}]
    /\ UNCHANGED <<events, login, words, failures>>

CompareLastWins(r) ==
    /\ At(r, "reading") /\ requests[r].pending = {}
    /\ requests' = [requests EXCEPT ![r].pc = "recording", ![r].pending = DOMAIN requests[r].seen]
    /\ UNCHANGED <<events, login, words, failures>>

\* A different event in one slot is refused, otherwise the events whose slots were
\* empty are written, all at once.
Compare(r) ==
    /\ At(r, "reading") /\ requests[r].pending = {}
    /\ IF Conflicts(requests[r])
       THEN Answer(r, 409)
       ELSE requests' = [requests EXCEPT ![r].pc = "recording",
                ![r].pending = {x \in DOMAIN requests[r].seen : requests[r].seen[x] = Null}]
    /\ UNCHANGED <<events, login, words, failures>>

\* A write that was begun lands even if another one has failed, and over another
\* event of the same log with the same number.
WriteEvent(r, x) ==
    /\ At(r, "recording") \/ At(r, "failed")
    /\ x \in requests[r].pending
    /\ LET kel == requests[r].kel IN
          events' = [events EXCEPT ![kel.aid][kel.events[x].s] = kel.events[x].d]
    /\ requests' = [requests EXCEPT ![r].pending = @ \ {x}]
    /\ UNCHANGED <<login, words, failures>>

\* One access fails and the submission with it.
RecordingFails(r) ==
    /\ failures < MaxFailures /\ failures' = failures + 1
    /\ At(r, "reading") \/ At(r, "recording")
    /\ \E x \in requests[r].pending :
          requests' = [requests EXCEPT ![r].pc = "failed", ![r].status = 500,
                ![r].pending = IF requests[r].pc = "reading" THEN {} ELSE @ \ {x}]
    /\ UNCHANGED <<events, login, words>>

\* issueChallenge, once everything is recorded: two writes at once.
IssueChallenge(r) ==
    /\ At(r, "recording") /\ requests[r].pending = {}
    /\ requests' = [requests EXCEPT ![r].pc = "issuing", ![r].pending = {"login", "words"}]
    /\ UNCHANGED <<events, login, words, failures>>

WriteLogin(r) ==
    /\ At(r, "issuing") /\ "login" \in requests[r].pending
    /\ login' = [login EXCEPT ![requests[r].token] =
            [phase |-> "challenged", kel |-> requests[r].kel, words |-> r, error |-> Null]]
    /\ requests' = [requests EXCEPT ![r].pending = @ \ {"login"}]
    /\ UNCHANGED <<events, words, failures>>

WriteWords(r) ==
    /\ At(r, "issuing") /\ "words" \in requests[r].pending
    /\ words' = [words EXCEPT ![r] = requests[r].token]
    /\ requests' = [requests EXCEPT ![r].pending = @ \ {"words"}]
    /\ UNCHANGED <<events, login, failures>>

Challenge(r) ==
    /\ At(r, "issuing") /\ requests[r].pending = {}
    /\ Answer(r, 200)
    /\ UNCHANGED <<events, login, words, failures>>

-----------------------------------------------------------------------------
(* handleChallengeResponse. *)

\* A response repeats the words of a challenge that was answered; it is signed
\* by some identifier under the key state of a log, sealed to its last event.
Respond(w, kel) ==
    /\ At(w, "done") /\ requests[w].status = 200
    /\ Arrive([pc |-> "lookup", status |-> Null, token |-> Null, kel |-> kel,
               words |-> w, record |-> Null])

LookUpToken(r) ==
    /\ At(r, "lookup")
    /\ LET t == words[requests[r].words] IN
          IF t = Null THEN Answer(r, 404)
          ELSE requests' = [requests EXCEPT ![r].pc = "found", ![r].token = t]
    /\ UNCHANGED <<events, login, words, failures>>

SignedBy(kel, record) == kel.aid = record.kel.aid

\* The response is by the identifier of the record, and verifyExchange accepts
\* it: it seals the last establishment event of the state in the record, by number
\* and digest.
Verifies(kel, record) ==
    /\ SignedBy(kel, record)
    /\ Last(kel.events) = Last(record.kel.events)

Save(r, record) == requests' = [requests EXCEPT ![r].pc = "saving", ![r].record = record]

LoginOf(r) == login[requests[r].token]

InPhase(r, phase) == LoginOf(r) # Null /\ LoginOf(r).phase = phase

\* No record, or the words are of an earlier challenge of the token.
Unknown(r) ==
    /\ At(r, "found")
    /\ ~InPhase(r, "authenticated")
    /\ InPhase(r, "challenged") => LoginOf(r).words # requests[r].words
    /\ Answer(r, 404)
    /\ UNCHANGED <<events, login, words, failures>>

Used(r) ==
    /\ At(r, "found")
    /\ InPhase(r, "authenticated")
    /\ Answer(r, 410)
    /\ UNCHANGED <<events, login, words, failures>>

MatchesAnyWords(r) ==
    /\ At(r, "found")
    /\ InPhase(r, "challenged")

Matches(r) ==
    /\ At(r, "found")
    /\ InPhase(r, "challenged")
    /\ LoginOf(r).words = requests[r].words

\* The outcome is decided on this copy of the record, and what will be written
\* is made from it: the same challenge with an error, here the status it is answered
\* with, which tells a response under an older key state from one by another signer ...
Refuse(r) ==
    /\ Matches(r) /\ ~Verifies(requests[r].kel, LoginOf(r))
    /\ Save(r, [LoginOf(r) EXCEPT !.error = IF SignedBy(requests[r].kel, LoginOf(r)) THEN 409 ELSE 400])
    /\ UNCHANGED <<events, login, words, failures>>

\* ... or the authentication.
Accept(r) ==
    /\ Matches(r) /\ Verifies(requests[r].kel, LoginOf(r))
    /\ Save(r, [phase |-> "authenticated", kel |-> LoginOf(r).kel])
    /\ UNCHANGED <<events, login, words, failures>>

WriteOutcome(r) ==
    LET record == requests[r].record IN
        /\ At(r, "saving")
        /\ login' = [login EXCEPT ![requests[r].token] = record]
        /\ Answer(r, IF record.phase = "authenticated" THEN 204 ELSE record.error)
        /\ UNCHANGED <<events, words, failures>>

-----------------------------------------------------------------------------

\* Each session entry has a time to live of its own.
Expire ==
    /\ \/ \E t \in Tokens : login[t] # Null /\ login' = [login EXCEPT ![t] = Null] /\ UNCHANGED words
       \/ \E w \in DOMAIN words : words[w] # Null /\ words' = [words EXCEPT ![w] = Null] /\ UNCHANGED login
    /\ UNCHANGED <<events, requests, failures>>

Next ==
    \/ \E t \in Tokens, kel \in Kels : Submit(t, kel)
    \/ \E w \in 1 .. MaxRequests, kel \in Kels : Respond(w, kel)
    \/ \E r \in DOMAIN requests :
          \/ \E x \in Positions : ReadEvent(r, x) \/ WriteEvent(r, x)
          \/ Compare(r) \/ RecordingFails(r) \/ IssueChallenge(r)
          \/ WriteLogin(r) \/ WriteWords(r) \/ Challenge(r)
          \/ LookUpToken(r) \/ Unknown(r) \/ Used(r) \/ Refuse(r) \/ Accept(r) \/ WriteOutcome(r)
    \/ Expire

Spec == Init /\ [][Next]_vars

-----------------------------------------------------------------------------
(* Properties. *)

\* The digests of the events of a log that state this number.
EventsAt(kel, sn) == {kel.events[x].d : x \in {y \in DOMAIN kel.events : kel.events[y].s = sn}}

\* First-seen wins between submissions: a stored event is replaced only by a
\* submission whose own log has two events with that number, both of them new to the
\* store when it looked. (recordKeyEvents, when no two submissions record at the same
\* time.)
FirstSeenStable ==
    [][\A aid \in Aids, sn \in SequenceNumbers :
          events[aid][sn] # Null /\ events'[aid][sn] # events[aid][sn] =>
              \E r \in Recording : LET kel == requests[r].kel IN
                  /\ kel.aid = aid
                  /\ {events[aid][sn], events'[aid][sn]} \subseteq EventsAt(kel, sn)
                  /\ \A x \in DOMAIN kel.events : kel.events[x].s = sn => requests[r].seen[x] = Null]_events

\* A token is challenged or authenticated only for a log that is recorded, although
\* recording may fail half way and be repeated: the slot of each of its events holds
\* that event, or another event of this log with the same number, never one of
\* another log.
RecordedBeforeChallenge ==
    \A t \in Tokens : login[t] # Null =>
        LET kel == login[t].kel
        IN  \A x \in DOMAIN kel.events :
                events[kel.aid][kel.events[x].s] \in EventsAt(kel, kel.events[x].s)

\* An authenticated token has a response to a challenge that was issued for this
\* token and this log, signed by the identifier under the state of this log,
\* whatever is submitted under the token meanwhile.
AuthenticatedByResponse ==
    \A t \in Tokens : login[t] # Null /\ login[t].phase = "authenticated" =>
        \E r \in DOMAIN requests :
            /\ requests[r].status = 204 /\ requests[r].token = t
            /\ Verifies(requests[r].kel, login[t])
            /\ requests[requests[r].words].token = t
            /\ requests[requests[r].words].kel = login[t].kel

\* A challenge is answered once: no second response with the same words is
\* accepted.
OneShot ==
    \A r, q \in DOMAIN requests :
        requests[r].status = 204 /\ requests[q].status = 204 /\ r # q =>
            requests[r].words # requests[q].words

=============================================================================
