----------------------- MODULE CredentialVerification ------------------------
(***************************************************************************)
(* verify of packages/keri/src/core/verify-report.ts on a stream that       *)
(* arrives in pieces: the index is built once (event-index.ts), then every *)
(* credential in it is verified once (credential-verification.ts, with the *)
(* registry events of transaction-event-log.ts), depth first along the     *)
(* edges, each result cached.                                              *)
(***************************************************************************)
EXTENDS EventIndex

CONSTANTS
    Pieces,       \* sequences of messages that may be in the stream
    MaxPieces,    \* bound: pieces of the stream
    Truth         \* identifier -> its key events, all of them and authentic

\* Every message that may be in the stream, or carried so deep by an exchange of it.
CopiesAt[depth \in 0 .. MaxNesting] ==
    IF depth = 0 THEN UNION {Elements(piece) : piece \in Pieces}
    ELSE UNION {Elements(Carried(m)) : m \in CopiesAt[depth - 1]}

Copies == UNION {CopiesAt[depth] : depth \in 0 .. MaxNesting}

\* Lists are lists, the numbers and thresholds of key events are well-formed, and no
\* exchange is nested deeper than the bound.
ASSUME VerificationAssumption ==
    /\ MaxNesting \in Nat
    /\ \A m \in CopiesAt[MaxNesting] : m.body.t # "exn"
    /\ \A piece \in Pieces : IsSequence(piece)
    /\ \A m \in Copies :
          /\ m.body.t = "exn" => IsSequence(m.body.embeds)
          /\ m.body.t = "acdc" => IsSequence(m.body.e)
          /\ IsKelEventType(m.body.t) => m.body.s \in Nat
          /\ IsEstablishment(m.body.t) => IsSequence(m.body.k) /\ IsThreshold(m.body.kt)

\* The owner of an identifier has published this event.
Published(body) == \E event \in Elements(Truth[body.i]) : event.body = body

\* A key of the owner: it is one of an establishment event or was committed to by one.
OwnsKey(aid, key) ==
    \E event \in Elements(Truth[aid]) :
        /\ IsEstablishment(event.body.t)
        /\ key \in Elements(event.body.k) \/ NextKeyDigest(key) \in Elements(event.body.n)

(***************************************************************************)
(* What others cannot make: only an owner signs with its keys, and it      *)
(* publishes what it signs. Nothing else is taken for granted, since the   *)
(* code computes neither the SAID nor the identifier of a key event again  *)
(* (append, key-event-log.ts:163-255): an inception may name an identifier *)
(* that is another's, and an event may state the SAID of another one.      *)
(***************************************************************************)
ASSUME TruthAssumption ==
    \A m \in Copies : IsKelEventType(m.body.t) =>
        /\ ~OwnsKey(m.body.i, Null)
        /\ (\E z \in DOMAIN m.sigs : OwnsKey(m.body.i, m.sigs[z])) => Published(m.body)

VARIABLES
    pieces,       \* the stream, as the pieces it came in
    pc,           \* "collecting", "collected", "verifying", "done"
    index,        \* context.index
    logs,         \* context.logs: identifier -> the set of its log, empty with a reason
    results,      \* context.results: said -> its verification
    stack         \* the calls of verifyEdges under way; context.visiting

verifyVars == <<pieces, pc, index, logs, results, stack>>

VerifyInit ==
    /\ pieces = <<>>
    /\ pc = "collecting"
    /\ index = <<>>
    /\ logs = <<>>
    /\ results = <<>>
    /\ stack = <<>>

-----------------------------------------------------------------------------
(* One credential, but for its edges.                                       *)

\* resolveCredentialTel: the last event of a type that is about i, as a set.
LastOf(events, t, i) ==
    LET found == {x \in DOMAIN events : events[x].body.t = t /\ events[x].body.i = i}
    IN  {events[x] : x \in {z \in found : \A y \in found : y <= z}}

RegistryOf(idx, c) == LastOf(TransactionEvents(idx, c.ri), "vcp", c.ri)

IssuanceOf(idx, c) == LastOf(TransactionEvents(idx, c.ri), "iss", c.d)

RevocationOf(idx, c) == LastOf(TransactionEvents(idx, c.ri), "rev", c.d)

Check(passed) == IF passed THEN "passed" ELSE "failed"

\* verifyTransactionEventAnchor
VerifyAnchor(m, log) ==
    FindSealAnchor(EventRef(m.body), m.hints, log.state.identifier, log.events)

AnchorCheck(events, issuer, prerequisite) ==
    IF issuer = {} \/ events = {} \/ prerequisite # "passed" THEN "skipped"
    ELSE Check(\A m \in events, log \in issuer : VerifyAnchor(m, log))

\* verifyRegistryInception
RegistryCheck(idx, c) ==
    Check(\E m \in RegistryOf(idx, c) : m.body.intact /\ m.body.ii = c.i)

\* verifyIssuance: the credential's own triple must name this issuance.
IssuanceCheck(idx, m) ==
    Check(\E iss \in IssuanceOf(idx, m.body) :
            /\ iss.body.intact
            /\ \A h \in Triples(m.hints) : h.prefix = m.body.d => h.d = iss.body.d)

\* verifyRevocation
RevocationCheck(idx, c, issuer) ==
    IF RevocationOf(idx, c) = {} THEN "not-applicable"
    ELSE LET prior == \A rev \in RevocationOf(idx, c) :
                        /\ rev.body.intact
                        /\ \A iss \in IssuanceOf(idx, c) : rev.body.p = iss.body.d
         IN  IF prior THEN AnchorCheck(RevocationOf(idx, c), issuer, "passed") ELSE "failed"

\* The checks of verify in their order, given the log of the issuer; what is said
\* of sections and of the schema document is left out.
Checks(idx, issuer, m) ==
    LET c        == m.body
        registry == RegistryCheck(idx, c)
        issuance == IssuanceCheck(idx, m)
    IN  [acdcSaid          |-> Check(c.intact),
         issuerKel         |-> Check(issuer # {}),
         registryInception |-> registry,
         registryAnchor    |-> AnchorCheck(RegistryOf(idx, c), issuer, registry),
         issuance          |-> issuance,
         issuanceAnchor    |-> AnchorCheck(IssuanceOf(idx, c), issuer, issuance),
         revocationAnchor  |-> RevocationCheck(idx, c, issuer)]

StatusByPresence(idx, c, checks) ==
    CASE RevocationOf(idx, c) # {} -> "revoked"
      [] IssuanceOf(idx, c) # {}   -> "issued"
      [] OTHER                     -> "unknown"

\* A revocation counts whether or not it checks out.
Status(idx, c, checks) ==
    CASE RevocationOf(idx, c) # {} -> "revoked"
      [] /\ RevocationOf(idx, c) = {}
         /\ checks.issuance = "passed" /\ checks.issuanceAnchor = "passed" -> "issued"
      [] OTHER -> "unknown"

Clean(checks) == \A id \in DOMAIN checks : checks[id] \notin {"failed", "skipped"}

\* What verify returns, given what verifyEdges found.
Verification(idx, issuer, m, edgesHold) ==
    LET checks == Checks(idx, issuer, m)
    IN  [schema |-> m.body.schema, status |-> Status(idx, m.body, checks), ok |-> Clean(checks) /\ edgesHold]

-----------------------------------------------------------------------------
(* The run.                                                                 *)

CredentialOf(idx, said) == CHOOSE m \in Elements(Credentials(idx)) : m.body.d = said

Saids(idx) == {m.body.d : m \in Elements(Credentials(idx))}

Receive(piece) ==
    /\ pc = "collecting"
    /\ Len(pieces) < MaxPieces
    /\ piece \notin Elements(pieces)
    /\ pieces' = Append(pieces, piece)
    /\ UNCHANGED <<pc, index, logs, results, stack>>

\* collect: the stream has ended.
Collect ==
    /\ pc = "collecting"
    /\ pc' = "collected"
    /\ index' = Flatten(FlattenSeq(pieces))
    /\ UNCHANGED <<pieces, logs, results, stack>>

\* The first pass of verify, over the identifiers.
VerifyIdentifiers ==
    /\ pc = "collected"
    /\ pc' = "verifying"
    /\ logs' = [aid \in AidsOf(index) |-> IssuerLog(index, aid)]
    /\ UNCHANGED <<pieces, index, results, stack>>

\* issuerLog, of one that may have no key events in the stream.
LogOf(aid) == IF aid \in DOMAIN logs THEN logs[aid] ELSE {}

Visiting == {stack[x].said : x \in DOMAIN stack}

\* The credential whose edges are being looked at, and what is left of them.
Top == stack[Len(stack)]

Record(said, edgesHold) ==
    LET m == CredentialOf(index, said) IN
        results' = [s \in DOMAIN results \cup {said} |->
            IF s = said THEN Verification(index, LogOf(m.body.i), m, edgesHold) ELSE results[s]]

\* resolve for a credential that has no result yet.
Resolve(said) ==
    LET refs == CredentialOf(index, said).body.e IN
        \/ refs = <<>> /\ Record(said, TRUE) /\ UNCHANGED stack
        \/ /\ refs # <<>>
           /\ stack' = Append(stack, [said |-> said, refs |-> refs, failed |-> FALSE])
           /\ UNCHANGED results

\* The loop of verifyCredentials, over the credentials in index order.
NextCredential ==
    /\ pc = "verifying" /\ stack = <<>>
    /\ \E x \in DOMAIN Credentials(index) :
          /\ \A y \in 1 .. x - 1 : Credentials(index)[y].body.d \in DOMAIN results
          /\ Credentials(index)[x].body.d \notin DOMAIN results
          /\ Resolve(Credentials(index)[x].body.d)
    /\ UNCHANGED <<pieces, pc, index, logs>>

AtEdge == pc = "verifying" /\ stack # <<>> /\ Top.refs # <<>>

NextEdge(holds) ==
    /\ stack' = [stack EXCEPT ![Len(stack)] =
                    [said |-> Top.said, refs |-> Tail(Top.refs), failed |-> Top.failed \/ ~holds]]
    /\ UNCHANGED <<pieces, pc, index, logs, results>>

AcceptableWhenRevoked(ref, target) ==
    /\ ref.s # Null => target.schema = ref.s
    /\ target.ok

\* The conditions of an edge on the verification of its target.
Acceptable(ref, target) ==
    /\ ref.s # Null => target.schema = ref.s
    /\ target.ok
    /\ target.status # "revoked"

OnStackOnly(n) == n = Top.said

OnStack(n) == n \in Visiting

\* A cycle, or a credential that is not in the stream.
EdgeIsOpen ==
    /\ AtEdge
    /\ OnStack(Head(Top.refs).n) \/ Head(Top.refs).n \notin Saids(index)
    /\ NextEdge(FALSE)

\* The target has a result, from this edge or from before.
EdgeIsResolved ==
    /\ AtEdge
    /\ ~OnStack(Head(Top.refs).n)
    /\ Head(Top.refs).n \in DOMAIN results
    /\ NextEdge(Acceptable(Head(Top.refs), results[Head(Top.refs).n]))

ResolveEdge ==
    /\ AtEdge
    /\ ~OnStack(Head(Top.refs).n)
    /\ Head(Top.refs).n \in Saids(index) \ DOMAIN results
    /\ Resolve(Head(Top.refs).n)
    /\ UNCHANGED <<pieces, pc, index, logs>>

\* verifyEdges returns, and verify with it.
EdgesVerified ==
    /\ pc = "verifying" /\ stack # <<>> /\ Top.refs = <<>>
    /\ Record(Top.said, ~Top.failed)
    /\ stack' = Front(stack)
    /\ UNCHANGED <<pieces, pc, index, logs>>

Report ==
    /\ pc = "verifying" /\ stack = <<>> /\ Saids(index) \subseteq DOMAIN results
    /\ pc' = "done"
    /\ UNCHANGED <<pieces, index, logs, results, stack>>

\* verify has returned.
Finished == pc = "done" /\ UNCHANGED verifyVars

VerifyNext ==
    \/ \E piece \in Pieces : Receive(piece)
    \/ Collect \/ VerifyIdentifiers
    \/ NextCredential
    \/ EdgeIsOpen \/ EdgeIsResolved \/ ResolveEdge \/ EdgesVerified
    \/ Report \/ Finished

VerifySpec == VerifyInit /\ [][VerifyNext]_verifyVars

-----------------------------------------------------------------------------
(* Properties of a finished run.                                            *)

\* Verification descends into a credential once at a time, however the edges of
\* the stream run, so the recursion is at most as deep as it has credentials.
TypeOK ==
    /\ pc \in {"collecting", "collected", "verifying", "done"}
    /\ Elements(pieces) \subseteq Pieces
    /\ DOMAIN results \subseteq Saids(index)
    /\ Visiting \subseteq Saids(index) \ DOMAIN results
    /\ Cardinality(Visiting) = Len(stack)

\* The log that the stream gave for an identifier begins with an event of its owner,
\* if there is one.
StartsTrue(aid) == \A log \in LogOf(aid) : Published(log.events[1].body)

\* A credential is reported issued only if its issuer really sealed an intact
\* issuance of it, whatever copies, forgeries and substitutes the stream has, as long
\* as the inception taken for the issuer's is the issuer's; and never while the
\* stream has a revocation of it.
IssuedIsSealed ==
    pc = "done" =>
        \A said \in DOMAIN results : results[said].status = "issued" =>
            LET c == CredentialOf(index, said).body IN
            /\ StartsTrue(c.i) =>
                  \E iss \in Elements(TransactionEvents(index, c.ri)) :
                      /\ iss.body.t = "iss" /\ iss.body.i = said /\ iss.body.intact
                      /\ \E event \in Elements(Truth[c.i]) : Anchors(event, EventRef(iss.body))
            /\ \A m \in Elements(index) : ~(m.body.t = "rev" /\ m.body.i = said /\ m.body.ri = c.ri)

\* What an edge requires of its target, and a credential of itself.
HoldsAlone(m) ==
    /\ Clean(Checks(index, LogOf(m.body.i), m))
    /\ \A x \in DOMAIN m.body.e : \E target \in Elements(Credentials(index)) :
          /\ target.body.d = m.body.e[x].n
          /\ m.body.e[x].s # Null => target.body.schema = m.body.e[x].s
          /\ RevocationOf(index, target.body) = {}

Targets(idx, said) ==
    UNION {{ref.n : ref \in Elements(m.body.e)} : m \in {o \in Elements(Credentials(idx)) : o.body.d = said}}

\* The credentials reached by one or more edges: those in every set that has the
\* targets and, with a credential, its targets.
LedTo(idx, said) ==
    LET all == UNION {Targets(idx, m) : m \in Saids(idx)}
    IN  {n \in all : \A reached \in SUBSET all :
            Targets(idx, said) \subseteq reached /\ (\A m \in reached : Targets(idx, m) \subseteq reached)
                => n \in reached}

\* The verdict that is cached for a credential is the one the edges define: the
\* credential and all it leads to check out, the credentials led to are present,
\* of the schema asked for and not revoked, and nothing on the way leads in a
\* circle. Where verification began, and what it met half-done, has no part in it.
OkIsFounded ==
    pc = "done" =>
        \A said \in Saids(index) :
            results[said].ok <=> \A n \in {said} \cup LedTo(index, said) :
                                     /\ \E m \in Elements(Credentials(index)) : m.body.d = n /\ HoldsAlone(m)
                                     /\ n \notin LedTo(index, n)

\* Two copies of a message agree where both say something.
Agree(m, o) ==
    /\ m.body = o.body
    /\ \A z \in DOMAIN m.sigs \cap DOMAIN o.sigs : m.sigs[z] = o.sigs[z]
    /\ \A z \in DOMAIN m.wigs \cap DOMAIN o.wigs : m.wigs[z] = o.wigs[z]
    /\ Couples(m.hints) = Couples(o.hints) \/ Couples(m.hints) = {} \/ Couples(o.hints) = {}
    /\ Triples(m.hints) = Triples(o.hints) \/ Triples(m.hints) = {} \/ Triples(o.hints) = {}

\* Nothing in the stream contradicts itself: copies agree, and there is one event of
\* a kind for a credential and one for a sequence number.
Consistent(messages) ==
    \A m, o \in Elements(messages) :
        /\ m.body.d = o.body.d => Agree(m, o)
        /\ IsTelEventType(m.body.t) /\ m.body.t = o.body.t /\ m.body.i = o.body.i => m.body.d = o.body.d
        /\ IsKelEventType(m.body.t) /\ IsKelEventType(o.body.t) /\ m.body.i = o.body.i /\ m.body.s = o.body.s
              => m.body.d = o.body.d

\* "A stream is a bag": when it does not contradict itself, what is said of a
\* credential and of its issuer depends on which messages arrived, not on their
\* order, nor on which copy of a message came first or came bare.
OrderIsImmaterial ==
    pc = "done" /\ Consistent(Pending(FlattenSeq(pieces))) =>
        \A other \in {Flatten(FlattenSeq(SetToSeq(Elements(pieces))))} :
            /\ \A aid \in AidsOf(index) : (logs[aid] = {}) = (IssuerLog(other, aid) = {})
            /\ \A said \in Saids(index) :
                  LET m == CredentialOf(index, said)
                      o == CredentialOf(other, said)
                  IN  Checks(index, LogOf(m.body.i), m) = Checks(other, IssuerLog(other, o.body.i), o)

=============================================================================
