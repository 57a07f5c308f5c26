---------------------------- MODULE StreamProofs ----------------------------
(***************************************************************************)
(* Proofs about Introduction and CredentialVerification, the two parts that*)
(* judge a whole stream: for any identifiers, histories, copies of events, *)
(* tables and streams of any size.                                         *)
(*                                                                         *)
(* introduce judges a stream and then stores it event by event, with other *)
(* work on the same table in between. IInv says what holds in the middle:  *)
(* an event of the judged log, and the event an end role is sealed to, is  *)
(* stored or still to come in the call (JudgedIsDue, RepliesDue). It holds *)
(* because the tables only grow (SavedGrows, Processed) and because what   *)
(* KeyEventLog.fromMessages returns is made of the stream it was given and *)
(* of nothing else (FromMessagesIsLog); for the end roles also because the *)
(* host itself stores what each is sealed to (HostBacked).                 *)
(*                                                                         *)
(* What the receiver stores replays (AllSane), although events are judged  *)
(* at the end of the log and put at their sequence numbers: each table is  *)
(* in order, has every establishment event before an event it has, and     *)
(* each row extends the history up to it (Sane). append looks at keys and  *)
(* backers only, so that the history without some interactions replays as  *)
(* well (Like, SaneReplays); and it takes an event only after the          *)
(* establishment event that was in force for it (Accepted), as the event   *)
(* is signed with keys of that one or committed to by it alone.            *)
(*                                                                         *)
(* verify takes the credentials of a stream depth first along their edges  *)
(* and caches each result. VerifyIInv says that every cached result is the *)
(* one the edges define (ResultsJudged), that each call under way has found*)
(* of the edges it has taken what is true of them (EdgesTaken), and that   *)
(* the calls are for different credentials, each led to by those below it  *)
(* (StackDescends). It holds because a credential is founded exactly when  *)
(* its own checks pass and its targets are founded (FoundedStep), and      *)
(* because one that is met again while under way is on a circle and founded*)
(* in no order (CircleUnfounded).                                          *)
(*                                                                         *)
(* What verify reports issued is sealed (StatusIInv), as the log of an     *)
(* issuer has only what the issuer has published (IssuerLogPublished), if  *)
(* it begins with what the issuer has: append takes nothing more that is   *)
(* not signed with keys that a published event has or commits to           *)
(* (OwnersLog). That the log begins so is not seen to by the code.         *)
(* keyEvents reads the logs of an identifier and its delegators; only the  *)
(* identifier itself can be the one that fromMessages returns (the walk).  *)
(*                                                                         *)
(* The order of a stream does not matter (StreamIsBag): two streams of the *)
(* same messages have the same ones at each level exchanges are nested     *)
(* (LevelsAgree), so that their indexes have the same members, as copies   *)
(* that agree merge alike (MergeAgrees), and list the key events alike, as *)
(* a position after sorting is the number of events with a lower sequence  *)
(* number (SortedAlike).                                                   *)
(*                                                                         *)
(* KeyEventLog.from, buildFor, enroll and collect loop over messages. The  *)
(* functions that stand for the loops are shown to exist, and to have their*)
(* property at each position, by induction over the positions.             *)
(***************************************************************************)
EXTENDS Introduction, CredentialVerification, Lemmas

-----------------------------------------------------------------------------
(* KeyEventLog.from. *)

\* log is what these messages make.
IsLogOf(log, messages, opts) ==
    /\ log.events = messages
    /\ log = [events |-> log.events, state |-> log.state, delegator |-> log.delegator]
    /\ log.delegator \in {Null, opts.delegator}
    /\ messages # <<>> =>
          /\ opts.delegator # Null => log.delegator = opts.delegator
          /\ IsInception(messages[1].body.t)
          /\ DOMAIN log.state = KeyStateFields
          /\ log.state.identifier = messages[1].body.i
          /\ \E x \in DOMAIN messages : log.state.lastEstablishment = EventRef(messages[x].body)
          /\ messages[1].body.t = "dip" /\ opts.delegator # Null =>
                VerifyDelegationAnchor(messages[1], opts.delegator)

\* An interaction or a rotation keeps the identifier, and the last establishment event
\* or puts itself in its place.
LEMMA ReducedRefs ==
    ASSUME NEW st, NEW body, DOMAIN st = KeyStateFields, body.t = "ixn" \/ IsRotation(body.t)
    PROVE LET new == ReduceKeyState(st, body) IN
          /\ DOMAIN new = KeyStateFields
          /\ new.identifier = st.identifier
          /\ new.lastEstablishment \in {st.lastEstablishment, EventRef(body)}
<1>1. CASE body.t = "ixn"
  <2>1. ReduceKeyState(st, body) = InteractionState(st, body)
    BY <1>1 DEF ReduceKeyState, IsInception, IsRotation
  <2> QED
    BY <2>1 DEF InteractionState, KeyStateFields
<1>2. CASE IsRotation(body.t)
  <2>1. ReduceKeyState(st, body) = RotationState(st, body)
    BY <1>2 DEF ReduceKeyState, IsInception, IsRotation
  <2> QED
    BY <2>1 DEF RotationState, KeyStateFields
<1> QED
  BY <1>1, <1>2

\* An inception names the identifier and is the last establishment event.
LEMMA InceptionRefs ==
    ASSUME NEW st, NEW body, IsInception(body.t)
    PROVE LET new == ReduceKeyState(st, body) IN
          /\ DOMAIN new = KeyStateFields
          /\ new.identifier = body.i
          /\ new.lastEstablishment = EventRef(body)
<1>1. ReduceKeyState(st, body) = InceptionState(body)
  BY DEF ReduceKeyState, IsInception, IsRotation
<1> QED
  BY <1>1 DEF InceptionState, KeyStateFields

\* append makes the log of the messages with one more.
LEMMA LogExtended ==
    ASSUME NEW M, NEW messages \in Seq(M), NEW m \in M, NEW opts, NEW log,
           IsLogOf(log, messages, opts), CanAppend(log, m, opts)
    PROVE IsLogOf(Extend(log, m, opts), Append(messages, m), opts)
<1> DEFINE new == Extend(log, m, opts)
           more == Append(messages, m)
<1>1. /\ new.events = Append(log.events, m)
      /\ new.state = ReduceKeyState(log.state, m.body)
      /\ new.delegator = DelegatorFor(log, opts)
  BY DEF Extend
<1>2. /\ new.events = more /\ new.delegator \in {Null, opts.delegator}
      /\ opts.delegator # Null => new.delegator = opts.delegator
  BY <1>1 DEF IsLogOf, DelegatorFor
<1>3. new = [events |-> new.events, state |-> new.state, delegator |-> new.delegator]
  BY DEF Extend
<1>4. /\ more \in Seq(M) /\ Len(more) = Len(messages) + 1
      /\ \A x \in 1 .. Len(messages) : more[x] = messages[x]
      /\ more[Len(messages) + 1] = m
      /\ Len(messages) \in Nat /\ DOMAIN messages = 1 .. Len(messages)
      /\ DOMAIN more = 1 .. Len(messages) + 1
  BY AppendProperties, LenProperties
<1> HIDE DEF new, more
<1>5. CASE messages = <<>>
  <2>1. CanIncept(log, m, opts)
    BY <1>5 DEF CanAppend, CanInteract, CanRotate, IsLogOf, HasState
  <2>2. Len(messages) + 1 = 1
    BY <1>5
  <2>3. more[1] = m /\ 1 \in DOMAIN more
    BY <1>4, <2>2
  <2>4. IsInception(m.body.t)
    BY <2>1 DEF CanIncept
  <2>5. m.body.t = "dip" /\ opts.delegator # Null => VerifyDelegationAnchor(m, opts.delegator)
    BY <2>1 DEF CanIncept, DelegatorFor
  <2>6. /\ DOMAIN new.state = KeyStateFields
        /\ new.state.identifier = m.body.i
        /\ new.state.lastEstablishment = EventRef(m.body)
    BY <1>1, <2>4, InceptionRefs
  <2> QED
    BY <1>2, <1>3, <2>3, <2>4, <2>5, <2>6 DEF IsLogOf, new, more
<1>6. CASE messages # <<>>
  <2>1. 1 \in 1 .. Len(messages) /\ more[1] = messages[1]
    BY <1>4, <1>6, EmptySeq
  <2>2. m.body.t = "ixn" \/ IsRotation(m.body.t)
    BY <1>6 DEF CanAppend, CanIncept, CanInteract, CanRotate, IsLogOf, HasState
  <2>3. /\ IsInception(messages[1].body.t)
        /\ DOMAIN log.state = KeyStateFields
        /\ log.state.identifier = messages[1].body.i
        /\ \E x \in DOMAIN messages : log.state.lastEstablishment = EventRef(messages[x].body)
        /\ messages[1].body.t = "dip" /\ opts.delegator # Null =>
              VerifyDelegationAnchor(messages[1], opts.delegator)
    BY <1>6 DEF IsLogOf
  <2>4. /\ DOMAIN new.state = KeyStateFields
        /\ new.state.identifier = log.state.identifier
        /\ new.state.lastEstablishment \in {log.state.lastEstablishment, EventRef(m.body)}
    BY <1>1, <2>2, <2>3, ReducedRefs
  <2>5. \E x \in DOMAIN more : new.state.lastEstablishment = EventRef(more[x].body)
    <3>1. CASE new.state.lastEstablishment = EventRef(m.body)
      BY <1>4, <3>1
    <3>2. CASE new.state.lastEstablishment = log.state.lastEstablishment
      BY <1>4, <2>3, <3>2
    <3> QED
      BY <2>4, <3>1, <3>2
  <2> QED
    BY <1>2, <1>3, <2>1, <2>3, <2>4, <2>5 DEF IsLogOf, new, more
<1> QED
  BY <1>5, <1>6

\* What KeyEventLog.from returns.
LEMMA FromIsLog ==
    ASSUME NEW M, NEW messages \in Seq(M), NEW opts, NEW log \in From(messages, opts)
    PROVE IsLogOf(log, messages, opts)
<1>1. Len(messages) \in Nat /\ DOMAIN messages = 1 .. Len(messages)
  BY LenProperties
<1>2. PICK after :
        /\ From(messages, opts) = after[Len(messages)]
        /\ after[0] = {EmptyLog}
        /\ \A x \in 1 .. Len(messages) : after[x] = NextLogs(after[x - 1], messages[x], opts)
  BY <1>1, FromRecursion
<1> DEFINE S == {x \in Nat : x <= Len(messages) => \A l \in after[x] : IsLogOf(l, SubSeq(messages, 1, x), opts)}
<1>3. 0 \in S
  <2>1. SubSeq(messages, 1, 0) = <<>>
    BY SubSeqEmpty
  <2>2. IsLogOf(EmptyLog, <<>>, opts)
    BY DEF IsLogOf, EmptyLog
  <2> QED
    BY <1>2, <2>1, <2>2
<1>4. \A x \in Nat : x \in S => x + 1 \in S
  <2> SUFFICES ASSUME NEW x \in Nat, x \in S, x + 1 <= Len(messages), NEW l \in after[x + 1]
               PROVE IsLogOf(l, SubSeq(messages, 1, x + 1), opts)
    OBVIOUS
  <2>1. x + 1 \in 1 .. Len(messages) /\ (x + 1) - 1 = x /\ x <= Len(messages)
    BY <1>1
  <2>2. after[x + 1] = NextLogs(after[x], messages[x + 1], opts)
    BY <1>2, <2>1
  <2>3. PICK k \in after[x] : CanAppend(k, messages[x + 1], opts) /\ l = Extend(k, messages[x + 1], opts)
    BY <2>2 DEF NextLogs
  <2>4. IsLogOf(k, SubSeq(messages, 1, x), opts)
    BY <2>1
  <2>5. SubSeq(messages, 1, x) \in Seq(M) /\ messages[x + 1] \in M
    BY <1>1, <2>1, ElementOfSeq, SubSeqProperties
  <2>6. SubSeq(messages, 1, x + 1) = Append(SubSeq(messages, 1, x), messages[x + 1])
    <3>1. SubSeq(messages, 1, x + 1) = SubSeq(messages, 1, x) \o <<messages[x + 1]>>
      BY <1>1, <2>1, SubSeqRecursiveSecond
    <3> QED
      BY <2>5, <3>1, AppendIsConcat
  <2> QED
    BY <2>3, <2>4, <2>5, <2>6, LogExtended
<1> HIDE DEF S
<1>5. Len(messages) \in S
  BY <1>1, <1>3, <1>4, SetInduction
<1>6. SubSeq(messages, 1, Len(messages)) = messages
  BY SubSeqFull
<1>7. \A l \in after[Len(messages)] : IsLogOf(l, SubSeq(messages, 1, Len(messages)), opts)
  BY <1>1, <1>5 DEF S
<1> QED
  BY <1>2, <1>6, <1>7

-----------------------------------------------------------------------------
(* KeyEventLog.fromMessages. *)

\* The members at some positions, each of them and no other.
LEMMA SelectedMembers ==
    ASSUME NEW M, NEW list \in Seq(M), NEW I \in SUBSET (DOMAIN list)
    PROVE /\ Selected(list, I) \in Seq(M)
          /\ DOMAIN Selected(list, I) = 1 .. Cardinality(I)
          /\ Elements(Selected(list, I)) = {list[x] : x \in I}
          /\ \A n \in DOMAIN Selected(list, I) : \E x \in I : Selected(list, I)[n] = list[x]
          /\ I # {} => Selected(list, I) # <<>>
<1> DEFINE nth == [n \in 1 .. Cardinality(I) |-> CHOOSE x \in I : Cardinality({y \in I : y <= x}) = n]
           S == Selected(list, I)
<1>1. Len(list) \in Nat /\ DOMAIN list = 1 .. Len(list)
  BY LenProperties
<1>2. I \subseteq 1 .. Len(list)
  BY <1>1
<1>3. IsFiniteSet(I) /\ Cardinality(I) \in Nat
  <2>1. IsFiniteSet(1 .. Len(list))
    BY <1>1, FS_Interval
  <2> QED
    BY <1>2, <2>1, FS_Subset, FS_CardinalityType
<1>4. \A n \in 1 .. Cardinality(I) : nth[n] \in I
  <2> TAKE n \in 1 .. Cardinality(I)
  <2>1. \E x \in I : Cardinality({y \in I : y <= x}) = n
    BY <1>1, <1>2, NthExists
  <2> QED
    BY <2>1
<1>5. S = [n \in 1 .. Cardinality(I) |-> list[nth[n]]]
  BY DEF Selected
<1>6. \A x \in I : \E n \in 1 .. Cardinality(I) : nth[n] = x
  <2> TAKE x \in I
  <2> DEFINE J(z) == {y \in I : y <= z}
  <2>1. \A z \in I : J(z) \subseteq I /\ IsFiniteSet(J(z)) /\ Cardinality(J(z)) \in 1 .. Cardinality(I)
    <3> TAKE z \in I
    <3>1. J(z) \subseteq I /\ z \in J(z)
      BY <1>1, <1>2
    <3> HIDE DEF J
    <3> QED
      BY <1>3, <3>1, FS_Subset, FS_CardinalityType, FS_EmptySet
  <2> DEFINE n == Cardinality(J(x))
             z == nth[n]
  <2>2. n \in 1 .. Cardinality(I)
    BY <2>1
  <2>3. z \in I /\ Cardinality(J(z)) = n
    <3>1. \E y \in I : Cardinality({v \in I : v <= y}) = n
      BY <2>2
    <3> HIDE DEF n
    <3>2. nth[n] = CHOOSE y \in I : Cardinality({v \in I : v <= y}) = n
      BY <2>2
    <3> HIDE DEF nth
    <3> QED
      BY <3>1, <3>2
  <2> HIDE DEF n, z, nth
  <2>4. x \in Nat /\ z \in Nat
    BY <1>1, <1>2, <2>3
  <2>5. x <= z => J(x) \subseteq J(z)
    BY <1>1, <1>2, <2>4
  <2>6. z <= x => J(z) \subseteq J(x)
    BY <1>1, <1>2, <2>4
  <2>7. x \in J(x) /\ z \in J(z)
    BY <2>3, <2>4
  <2>8. J(x) = J(z)
    <3>1. Cardinality(J(x)) = Cardinality(J(z))
      BY <2>3 DEF n
    <3>2. x <= z \/ z <= x
      BY <2>4
    <3>3. IsFiniteSet(J(x)) /\ IsFiniteSet(J(z))
      BY <2>1, <2>3
    <3> HIDE DEF J
    <3> QED
      BY <2>5, <2>6, <3>1, <3>2, <3>3, FS_Subset
  <2>9. x <= z /\ z <= x
    BY <2>7, <2>8
  <2>10. x = z
    BY <2>4, <2>9
  <2> QED
    BY <2>2, <2>10 DEF z
<1> HIDE DEF nth, S
<1>7. \A n \in 1 .. Cardinality(I) : list[nth[n]] \in M
  BY <1>1, <1>2, <1>4, ElementOfSeq
<1>8. S \in [1 .. Cardinality(I) -> M]
  BY <1>5, <1>7
<1>9. S \in Seq(M)
  BY <1>3, <1>8, SeqDef
<1>10. Elements(S) = {list[x] : x \in I}
  BY <1>4, <1>5, <1>6 DEF Elements
<1>11. I # {} => S # <<>>
  <2> SUFFICES ASSUME I # {} PROVE S # <<>>
    OBVIOUS
  <2>1. PICK x \in I : TRUE
    OBVIOUS
  <2>2. \E n \in DOMAIN S : TRUE
    BY <1>5, <1>6, <2>1
  <2> QED
    BY <2>2
<1> QED
  BY <1>4, <1>5, <1>9, <1>10, <1>11 DEF S

\* The events of one identifier are among the messages, and are its own.
LEMMA EventsOfMessages ==
    ASSUME NEW M, NEW messages \in Seq(M), NEW aid
    PROVE /\ EventsOf(messages, aid) \in Seq(M)
          /\ Elements(EventsOf(messages, aid)) \subseteq Elements(messages)
          /\ \A m \in Elements(EventsOf(messages, aid)) : m.body.i = aid
<1> DEFINE I == {x \in DOMAIN messages : messages[x].body.i = aid}
<1>1. I \in SUBSET (DOMAIN messages)
  OBVIOUS
<1>2. EventsOf(messages, aid) \in Seq(M) /\ Elements(EventsOf(messages, aid)) = {messages[x] : x \in I}
  <2> HIDE DEF I
  <2>1. Selected(messages, I) \in Seq(M) /\ Elements(Selected(messages, I)) = {messages[x] : x \in I}
    BY <1>1, SelectedMembers
  <2> QED
    BY <2>1 DEF EventsOf, I
<1> QED
  BY <1>2 DEF Elements

\* The logs of buildFor along one link more than in shorter.
Built(messages, opts, shorter, link) ==
    [id \in Identifiers(messages) |->
        LET events == EventsOf(messages, id)
            first  == events[1].body
        IN  IF first.t = "dip" /\ first.di \in Identifiers(messages)
            THEN IF link = 0 THEN {}
                 ELSE UNION {From(events, [opts EXCEPT !.delegator = log]) : log \in shorter[link - 1][first.di]}
            ELSE From(events, [opts EXCEPT !.delegator = Null])]

\* No link of the chain of delegators depends on more than the link before it.
LEMMA BuiltLocally ==
    ASSUME NEW messages, NEW opts, NEW f, NEW g, NEW link, link # 0 => f[link - 1] = g[link - 1]
    PROVE Built(messages, opts, f, link) = Built(messages, opts, g, link)
<1>1. CASE link = 0
  BY <1>1 DEF Built
<1>2. CASE link # 0
  BY <1>2 DEF Built
<1> QED
  BY <1>1, <1>2

\* The recursion of buildFor, one link after the other.
LEMMA BuildRecursion ==
    ASSUME NEW messages, NEW opts, NEW aid, Cardinality(Identifiers(messages)) \in Nat
    PROVE \E built :
            /\ BuildFor(messages, aid, opts) = built[Cardinality(Identifiers(messages))][aid]
            /\ \A link \in 0 .. Cardinality(Identifiers(messages)) :
                  built[link] = Built(messages, opts, built, link)
<1> DEFINE n == Cardinality(Identifiers(messages))
           S == {k \in Nat : \E f : f = [link \in 0 .. k |-> Built(messages, opts, f, link)]}
<1>1. 0 \in S
  <2> DEFINE f == [link \in 0 .. 0 |-> Built(messages, opts, <<>>, link)]
  <2>1. \A link \in 0 .. 0 : Built(messages, opts, <<>>, link) = Built(messages, opts, f, link)
    BY BuiltLocally
  <2>2. f = [link \in 0 .. 0 |-> Built(messages, opts, f, link)]
    BY <2>1
  <2> HIDE DEF f
  <2> QED
    BY <2>2
<1>2. \A k \in Nat : k \in S => k + 1 \in S
  <2> SUFFICES ASSUME NEW k \in Nat, k \in S PROVE k + 1 \in S
    OBVIOUS
  <2>1. PICK f : f = [link \in 0 .. k |-> Built(messages, opts, f, link)]
    OBVIOUS
  <2> DEFINE g == [link \in 0 .. k + 1 |-> Built(messages, opts, f, link)]
  <2>2. \A link \in 0 .. k : f[link] = Built(messages, opts, f, link)
    BY <2>1
  <2>3. \A link \in 0 .. k + 1 : g[link] = Built(messages, opts, f, link)
    OBVIOUS
  <2>4. \A link \in 0 .. k : g[link] = f[link]
    <3>1. \A link \in 0 .. k : link \in 0 .. k + 1
      OBVIOUS
    <3> QED
      BY <2>2, <2>3, <3>1
  <2> HIDE DEF g
  <2>5. \A link \in 0 .. k + 1 : Built(messages, opts, f, link) = Built(messages, opts, g, link)
    <3> TAKE link \in 0 .. k + 1
    <3>1. link # 0 => link - 1 \in 0 .. k
      OBVIOUS
    <3> QED
      BY <2>4, <3>1, BuiltLocally
  <2>6. g = [link \in 0 .. k + 1 |-> Built(messages, opts, g, link)]
    BY <2>5 DEF g
  <2>7. k + 1 \in Nat
    OBVIOUS
  <2> QED
    BY <2>6, <2>7
<1> HIDE DEF S
<1>3. n \in S
  BY <1>1, <1>2, SetInduction
<1> DEFINE built == CHOOSE f : f = [link \in 0 .. n |-> Built(messages, opts, f, link)]
<1>4. built = [link \in 0 .. n |-> Built(messages, opts, built, link)]
  BY <1>3 DEF S
<1>5. BuildFor(messages, aid, opts) = built[n][aid]
  BY DEF BuildFor, Built
<1> HIDE DEF built
<1>6. \A link \in 0 .. n : built[link] = Built(messages, opts, built, link)
  BY <1>4
<1> QED
  BY <1>5, <1>6

\* A stream is about finitely many identifiers.
LEMMA IdentifiersFinite ==
    ASSUME NEW M, NEW messages \in Seq(M)
    PROVE IsFiniteSet(Identifiers(messages)) /\ Cardinality(Identifiers(messages)) \in Nat
<1> DEFINE ids == Identifiers(messages)
           f == [x \in 1 .. Len(messages) |-> messages[x].body.i]
<1>1. Len(messages) \in Nat /\ DOMAIN messages = 1 .. Len(messages)
  BY LenProperties
<1>2. ids = {messages[x].body.i : x \in 1 .. Len(messages)}
  BY <1>1 DEF Identifiers, Elements
<1> HIDE DEF ids
<1>3. f \in [1 .. Len(messages) -> ids]
  BY <1>2
<1>4. \A id \in ids : \E x \in 1 .. Len(messages) : f[x] = id
  BY <1>2
<1> HIDE DEF f
<1>5. IsFiniteSet(ids) /\ Cardinality(ids) \in Nat
  BY <1>1, <1>3, <1>4, Enumerated
<1> QED
  BY <1>5 DEF ids

OwnedBy(aid, events) == \A m \in Elements(events) : m.body.i = aid

\* A log whose events and whose delegator's events are among messages.
StreamLog(log, messages, M) ==
    \E events \in Seq(M) : \E opts, aid :
        /\ IsLogOf(log, events, opts)
        /\ Elements(events) \subseteq Elements(messages)
        /\ OwnedBy(aid, events)
        /\ opts.delegator # Null => Elements(opts.delegator.events) \subseteq Elements(messages)

\* What buildFor returns is made of the stream.
LEMMA BuiltIsLog ==
    ASSUME NEW M, NEW messages \in Seq(M), NEW opts, NEW built, "delegator" \in DOMAIN opts,
           NEW n \in Nat,
           \A link \in 0 .. n : built[link] = Built(messages, opts, built, link)
    PROVE \A link \in 0 .. n, id \in Identifiers(messages) :
              \A log \in built[link][id] : StreamLog(log, messages, M)
<1>1. \A delegator : [opts EXCEPT !.delegator = delegator].delegator = delegator
  OBVIOUS
<1>2. \A id : /\ EventsOf(messages, id) \in Seq(M)
              /\ Elements(EventsOf(messages, id)) \subseteq Elements(messages)
              /\ \A m \in Elements(EventsOf(messages, id)) : m.body.i = id
  BY EventsOfMessages
<1>3. ASSUME NEW link \in 0 .. n, NEW id \in Identifiers(messages), NEW log \in built[link][id]
      PROVE \/ log \in From(EventsOf(messages, id), [opts EXCEPT !.delegator = Null])
            \/ \E other \in Identifiers(messages) :
                  /\ link - 1 \in 0 .. n
                  /\ \E delegator \in built[link - 1][other] :
                        log \in From(EventsOf(messages, id), [opts EXCEPT !.delegator = delegator])
  <2>1. log \in Built(messages, opts, built, link)[id]
    BY <1>3
  <2>2. link # 0 => link - 1 \in 0 .. n
    OBVIOUS
  <2> DEFINE events == EventsOf(messages, id)
             other == events[1].body.di
  <2>3. Built(messages, opts, built, link)[id] =
            IF events[1].body.t = "dip" /\ other \in Identifiers(messages)
            THEN IF link = 0 THEN {}
                 ELSE UNION {From(events, [opts EXCEPT !.delegator = l]) : l \in built[link - 1][other]}
            ELSE From(events, [opts EXCEPT !.delegator = Null])
    BY DEF Built
  <2> HIDE DEF events, other
  <2>4. CASE events[1].body.t = "dip" /\ other \in Identifiers(messages)
    <3>1. link # 0
      BY <2>1, <2>3, <2>4
    <3>2. PICK l \in built[link - 1][other] : log \in From(events, [opts EXCEPT !.delegator = l])
      BY <2>1, <2>3, <2>4, <3>1
    <3> QED
      BY <2>2, <2>4, <3>1, <3>2 DEF events
  <2>5. CASE ~(events[1].body.t = "dip" /\ other \in Identifiers(messages))
    BY <2>1, <2>3, <2>5 DEF events
  <2> QED
    BY <2>4, <2>5
<1>4. ASSUME NEW id, NEW delegator, NEW log \in From(EventsOf(messages, id), [opts EXCEPT !.delegator = delegator])
      PROVE IsLogOf(log, EventsOf(messages, id), [opts EXCEPT !.delegator = delegator])
  BY <1>2, <1>4, FromIsLog
<1>5. ASSUME NEW link \in 0 .. n, NEW id \in Identifiers(messages), NEW log \in built[link][id]
      PROVE log.events = EventsOf(messages, id)
  <2>1. \E delegator : log \in From(EventsOf(messages, id), [opts EXCEPT !.delegator = delegator])
    BY <1>3, <1>5
  <2>2. \E o : IsLogOf(log, EventsOf(messages, id), o)
    BY <1>4, <2>1
  <2> QED
    BY <2>2 DEF IsLogOf
<1>6. ASSUME NEW id, NEW delegator, NEW log \in From(EventsOf(messages, id), [opts EXCEPT !.delegator = delegator]),
             delegator # Null => Elements(delegator.events) \subseteq Elements(messages)
      PROVE StreamLog(log, messages, M)
  <2>1. PICK o : o = [opts EXCEPT !.delegator = delegator]
    OBVIOUS
  <2>2. o.delegator = delegator
    BY <1>1, <2>1
  <2>3. IsLogOf(log, EventsOf(messages, id), o)
    BY <1>4, <1>6, <2>1
  <2>4. PICK events \in Seq(M) : events = EventsOf(messages, id)
    BY <1>2
  <2> QED
    BY <1>2, <1>6, <2>2, <2>3, <2>4 DEF StreamLog, OwnedBy
<1>7. ASSUME NEW link \in 0 .. n, NEW id \in Identifiers(messages), NEW log \in built[link][id]
      PROVE StreamLog(log, messages, M)
  <2>1. CASE log \in From(EventsOf(messages, id), [opts EXCEPT !.delegator = Null])
    BY <1>6, <2>1
  <2>2. ASSUME NEW other \in Identifiers(messages), link - 1 \in 0 .. n,
               NEW delegator \in built[link - 1][other],
               log \in From(EventsOf(messages, id), [opts EXCEPT !.delegator = delegator])
        PROVE StreamLog(log, messages, M)
    <3>1. delegator.events = EventsOf(messages, other)
      BY <1>5, <2>2
    <3> QED
      BY <1>2, <1>6, <2>2, <3>1
  <2> QED
    BY <1>3, <1>7, <2>1, <2>2
<1> QED
  BY <1>7

\* What KeyEventLog.fromMessages returns.
LEMMA FromMessagesIsLog ==
    ASSUME NEW M, NEW messages \in Seq(M), NEW opts, "delegator" \in DOMAIN opts, opts.delegator = Null,
           NEW log \in FromMessages(messages, opts)
    PROVE StreamLog(log, messages, M)
<1>1. CASE messages = <<>>
  <2>1. log = EmptyLog
    <3>1. Identifiers(messages) = {}
      BY <1>1 DEF Identifiers, Elements
    <3>2. Cardinality(Identifiers(messages)) # 1
      BY <3>1, FS_EmptySet
    <3> QED
      BY <1>1, <3>2 DEF FromMessages
  <2>2. IsLogOf(EmptyLog, messages, opts)
    BY <1>1 DEF IsLogOf, EmptyLog
  <2>3. Elements(messages) = {}
    BY <1>1 DEF Elements
  <2> QED
    BY <2>1, <2>2, <2>3 DEF StreamLog, OwnedBy
<1>2. CASE messages # <<>> /\ Cardinality(Identifiers(messages)) = 1
  <2>1. log \in From(messages, opts)
    BY <1>2 DEF FromMessages
  <2>2. IsLogOf(log, messages, opts)
    BY <2>1, FromIsLog
  <2>3. PICK aid : Identifiers(messages) = {aid}
    BY <1>2, IdentifiersFinite, FS_Singleton
  <2>4. \A m \in Elements(messages) : m.body.i = aid
    BY <2>3 DEF Identifiers
  <2> QED
    BY <2>2, <2>4 DEF StreamLog, OwnedBy
<1>3. CASE messages # <<>> /\ Cardinality(Identifiers(messages)) # 1
  <2>1. PICK leaf \in Leaves(messages) : log \in BuildFor(messages, leaf, opts)
    BY <1>3 DEF FromMessages
  <2>2. leaf \in Identifiers(messages)
    BY <2>1 DEF Leaves
  <2>3. PICK n \in Nat : n = Cardinality(Identifiers(messages))
    BY IdentifiersFinite
  <2>4. PICK built :
            /\ BuildFor(messages, leaf, opts) = built[n][leaf]
            /\ \A link \in 0 .. n : built[link] = Built(messages, opts, built, link)
    BY <2>3, BuildRecursion
  <2>5. \A link \in 0 .. n, id \in Identifiers(messages) :
              \A l \in built[link][id] : StreamLog(l, messages, M)
    BY <2>4, BuiltIsLog
  <2>6. n \in 0 .. n
    OBVIOUS
  <2> QED
    BY <2>1, <2>2, <2>4, <2>5, <2>6
<1> QED
  BY <1>1, <1>2, <1>3

-----------------------------------------------------------------------------
(* Saving many messages, and processMessage. *)

\* The loop that stores the events of a log.
LEMMA SaveAllRecursion ==
    ASSUME NEW stored, NEW messages, Len(messages) \in Nat
    PROVE \E after :
            /\ SaveAll(stored, messages) = after[Len(messages)]
            /\ after[0] = stored
            /\ \A x \in 1 .. Len(messages) : after[x] = SaveMessage(after[x - 1], messages[x])
<1> DEFINE n == Len(messages)
           S == {k \in Nat : \E f : f = [x \in 0 .. k |-> IF x = 0 THEN stored
                                                         ELSE SaveMessage(f[x - 1], messages[x])]}
<1>1. 0 \in S
  <2> DEFINE f == [x \in 0 .. 0 |-> stored]
  <2>1. f = [x \in 0 .. 0 |-> IF x = 0 THEN stored ELSE SaveMessage(f[x - 1], messages[x])]
    OBVIOUS
  <2> HIDE DEF f
  <2> QED
    BY <2>1
<1>2. \A k \in Nat : k \in S => k + 1 \in S
  <2> SUFFICES ASSUME NEW k \in Nat, k \in S PROVE k + 1 \in S
    OBVIOUS
  <2>1. PICK f : f = [x \in 0 .. k |-> IF x = 0 THEN stored ELSE SaveMessage(f[x - 1], messages[x])]
    OBVIOUS
  <2> DEFINE g == [x \in 0 .. k + 1 |-> IF x = 0 THEN stored ELSE SaveMessage(f[x - 1], messages[x])]
  <2>2. \A x \in 0 .. k : f[x] = IF x = 0 THEN stored ELSE SaveMessage(f[x - 1], messages[x])
    BY <2>1
  <2>3. \A x \in 0 .. k + 1 : g[x] = IF x = 0 THEN stored ELSE SaveMessage(f[x - 1], messages[x])
    OBVIOUS
  <2>4. \A x \in 0 .. k : g[x] = f[x]
    <3>1. \A x \in 0 .. k : x \in 0 .. k + 1
      OBVIOUS
    <3> QED
      BY <2>2, <2>3, <3>1
  <2> HIDE DEF g
  <2>5. \A x \in 0 .. k + 1 : x # 0 => f[x - 1] = g[x - 1]
    <3>1. \A x \in 0 .. k + 1 : x # 0 => x - 1 \in 0 .. k
      OBVIOUS
    <3> QED
      BY <2>4, <3>1
  <2>6. g = [x \in 0 .. k + 1 |-> IF x = 0 THEN stored ELSE SaveMessage(g[x - 1], messages[x])]
    BY <2>5 DEF g
  <2>7. k + 1 \in Nat
    OBVIOUS
  <2> QED
    BY <2>6, <2>7
<1> HIDE DEF S
<1>3. n \in S
  BY <1>1, <1>2, SetInduction
<1> DEFINE after == CHOOSE f : f = [x \in 0 .. n |-> IF x = 0 THEN stored
                                                   ELSE SaveMessage(f[x - 1], messages[x])]
<1>4. after = [x \in 0 .. n |-> IF x = 0 THEN stored ELSE SaveMessage(after[x - 1], messages[x])]
  BY <1>3 DEF S
<1>5. SaveAll(stored, messages) = after[n]
  BY DEF SaveAll
<1> HIDE DEF after
<1>6. \A x \in 0 .. n : after[x] = IF x = 0 THEN stored ELSE SaveMessage(after[x - 1], messages[x])
  BY <1>4
<1>7. after[0] = stored /\ \A x \in 1 .. n : after[x] = SaveMessage(after[x - 1], messages[x])
  <2>1. 0 \in 0 .. n /\ \A x \in 1 .. n : x \in 0 .. n /\ x # 0
    OBVIOUS
  <2> QED
    BY <1>6, <2>1
<1> QED
  BY <1>5, <1>7

\* new is a table that has grown from old by messages of more.
Grown(old, new, more, M) ==
    /\ new \in Seq(M)
    /\ \A row \in Elements(old) : \E later \in Elements(new) : later.body = row.body
    /\ \A later \in Elements(new) :
          \/ \E row \in Elements(old) : later.body = row.body
          \/ \E m \in more : later.body = m.body

\* saveMessage lets a table grow by the message.
LEMMA SavedGrows ==
    ASSUME NEW M, Closed(M), NEW old \in Seq(M), NEW m \in M
    PROVE Grown(old, SaveMessage(old, m), {m}, M)
<1>1. SaveMessage(old, m) \in Seq(M)
  BY Saved
<1>2. \A row \in Elements(old) : \E new \in Elements(SaveMessage(old, m)) : new.body = row.body
  BY Saved
<1>3. \A new \in Elements(SaveMessage(old, m)) :
        new.body = m.body \/ \E row \in Elements(old) : new.body = row.body
  BY Saved
<1> QED
  BY <1>1, <1>2, <1>3 DEF Grown

\* What is stored stays stored in a table that grows.
LEMMA GrownStores ==
    ASSUME NEW M, NEW old, NEW new, NEW more, Grown(old, new, more, M)
    PROVE \A d : Stores(old, d) => Stores(new, d)
BY DEF Grown, Stores

\* Storing the events of a log lets the table grow by them, and stores them all.
LEMMA AllSaved ==
    ASSUME NEW M, Closed(M), NEW stored \in Seq(M), NEW messages \in Seq(M)
    PROVE /\ Grown(stored, SaveAll(stored, messages), Elements(messages), M)
          /\ \A m \in Elements(messages) : Stores(SaveAll(stored, messages), m.body.d)
<1>1. Len(messages) \in Nat /\ DOMAIN messages = 1 .. Len(messages)
  BY LenProperties
<1>2. PICK after :
        /\ SaveAll(stored, messages) = after[Len(messages)]
        /\ after[0] = stored
        /\ \A x \in 1 .. Len(messages) : after[x] = SaveMessage(after[x - 1], messages[x])
  <2>1. Len(messages) \in Nat
    BY <1>1
  <2> QED
    BY <2>1, SaveAllRecursion, Z3
<1> DEFINE S == {x \in Nat : x <= Len(messages) =>
                    /\ Grown(stored, after[x], Elements(messages), M)
                    /\ \A y \in 1 .. x : Stores(after[x], messages[y].body.d)}
<1>3. 0 \in S
  <2>1. Grown(stored, stored, Elements(messages), M)
    BY DEF Grown
  <2> QED
    BY <1>2, <2>1
<1>4. \A x \in Nat : x \in S => x + 1 \in S
  <2> SUFFICES ASSUME NEW x \in Nat, x \in S, x + 1 <= Len(messages)
               PROVE /\ Grown(stored, after[x + 1], Elements(messages), M)
                     /\ \A y \in 1 .. x + 1 : Stores(after[x + 1], messages[y].body.d)
    OBVIOUS
  <2>1. x + 1 \in 1 .. Len(messages) /\ (x + 1) - 1 = x /\ x <= Len(messages)
    BY <1>1
  <2>2. after[x + 1] = SaveMessage(after[x], messages[x + 1])
    BY <1>2, <2>1
  <2>3. /\ Grown(stored, after[x], Elements(messages), M)
        /\ \A y \in 1 .. x : Stores(after[x], messages[y].body.d)
    BY <2>1
  <2>4. after[x] \in Seq(M) /\ messages[x + 1] \in M /\ messages[x + 1] \in Elements(messages)
    BY <1>1, <2>1, <2>3, ElementOfSeq DEF Grown, Elements
  <2>5. PICK m \in M : m = messages[x + 1]
    BY <2>4
  <2>6. /\ Grown(after[x], after[x + 1], {m}, M)
        /\ Stores(after[x + 1], m.body.d)
    BY <2>2, <2>4, <2>5, SavedGrows, SavedStores
  <2>7. Grown(stored, after[x + 1], Elements(messages), M)
    <3>1. after[x + 1] \in Seq(M)
      BY <2>6 DEF Grown
    <3>2. \A row \in Elements(stored) : \E later \in Elements(after[x + 1]) : later.body = row.body
      <4> TAKE row \in Elements(stored)
      <4>1. PICK mid \in Elements(after[x]) : mid.body = row.body
        BY <2>3 DEF Grown
      <4>2. PICK later \in Elements(after[x + 1]) : later.body = mid.body
        BY <2>6 DEF Grown
      <4> QED
        BY <4>1, <4>2
    <3>3. \A later \in Elements(after[x + 1]) :
             \/ \E row \in Elements(stored) : later.body = row.body
             \/ \E k \in Elements(messages) : later.body = k.body
      <4> TAKE later \in Elements(after[x + 1])
      <4>1. CASE later.body = m.body
        BY <2>4, <2>5, <4>1
      <4>2. ASSUME NEW mid \in Elements(after[x]), later.body = mid.body
            PROVE \/ \E row \in Elements(stored) : later.body = row.body
                  \/ \E k \in Elements(messages) : later.body = k.body
        BY <2>3, <4>2 DEF Grown
      <4> QED
        BY <2>6, <4>1, <4>2 DEF Grown
    <3> QED
      BY <3>1, <3>2, <3>3 DEF Grown
  <2>8. \A d : Stores(after[x], d) => Stores(after[x + 1], d)
    BY <2>6, GrownStores
  <2>9. \A y \in 1 .. x + 1 : Stores(after[x + 1], messages[y].body.d)
    <3> TAKE y \in 1 .. x + 1
    <3>1. CASE y = x + 1
      BY <2>5, <2>6, <3>1
    <3>2. CASE y # x + 1
      <4>1. y \in 1 .. x
        BY <3>2
      <4> QED
        BY <2>3, <2>8, <4>1
    <3> QED
      BY <3>1, <3>2
  <2> QED
    BY <2>7, <2>9
<1> HIDE DEF S
<1>5. Len(messages) \in S
  BY <1>1, <1>3, <1>4, SetInduction
<1>6. /\ Grown(stored, after[Len(messages)], Elements(messages), M)
      /\ \A y \in 1 .. Len(messages) : Stores(after[Len(messages)], messages[y].body.d)
  BY <1>1, <1>5 DEF S
<1>7. \A m \in Elements(messages) : \E y \in 1 .. Len(messages) : m = messages[y]
  BY <1>1 DEF Elements
<1> QED
  BY <1>2, <1>6, <1>7

\* processMessage stores what it takes and forgets nothing.
LEMMA Processed ==
    ASSUME NEW M, Closed(M), NEW old \in Seq(M), NEW m \in M, NEW new \in ProcessMessage(old, m)
    PROVE /\ Grown(old, new, {m}, M)
          /\ Stores(new, m.body.d)
<1>1. PICK log \in From(old, Strict) : new = IF Includes(log, m.body.d) THEN old ELSE SaveMessage(old, m)
  BY DEF ProcessMessage
<1>2. log.events = old
  BY <1>1, FromIsLog DEF IsLogOf
<1>3. CASE Includes(log, m.body.d)
  <2>1. new = old /\ Stores(old, m.body.d)
    BY <1>1, <1>2, <1>3 DEF Includes
  <2>2. Grown(old, old, {m}, M)
    BY DEF Grown
  <2> QED
    BY <2>1, <2>2
<1>4. CASE ~Includes(log, m.body.d)
  <2>1. new = SaveMessage(old, m)
    BY <1>1, <1>4
  <2> QED
    BY <2>1, SavedGrows, SavedStores
<1> QED
  BY <1>3, <1>4

-----------------------------------------------------------------------------
(* The state. *)

Messages ==
    [body : {m.body : m \in Travelling}, sigs : {m.sigs : m \in Travelling},
     wigs : {m.wigs : m \in Travelling}, hints : {m.hints : m \in Travelling}]

\* The messages that are about are closed under joining events with other signatures,
\* and are about known identifiers.
LEMMA TravellingMessages ==
    /\ Closed(Messages)
    /\ Travelling \subseteq Messages
    /\ \A m \in Messages : m.body.i \in Aids /\ (m.body.t = "dip" => m.body.di \in Aids)
<1>1. Closed(Messages)
  BY DEF Closed, Messages
<1>2. Travelling \subseteq Messages
  <2> SUFFICES ASSUME NEW m \in Travelling PROVE m \in Messages
    OBVIOUS
  <2>1. m \in [body : {m.body}, sigs : {m.sigs}, wigs : {m.wigs}, hints : {m.hints}]
    BY IntroductionAssumption
  <2> QED
    BY <2>1 DEF Messages
<1>3. \A m \in Messages : m.body.i \in Aids /\ (m.body.t = "dip" => m.body.di \in Aids)
  <2> TAKE m \in Messages
  <2>1. PICK k \in Travelling : m.body = k.body
    BY DEF Messages
  <2> QED
    BY <2>1, IntroductionAssumption
<1> QED
  BY <1>1, <1>2, <1>3

\* The events of a history are such messages.
LEMMA HistoryMessages ==
    ASSUME NEW aid \in Aids
    PROVE \A n \in 1 .. Len(History[aid]) :
              History[aid][n] \in Messages /\ History[aid][n].body.i = aid
<1>1. History[aid] \in Seq(Elements(History[aid])) /\ \A m \in Elements(History[aid]) : m.body.i = aid
  BY IntroductionAssumption
<1>2. Elements(History[aid]) \subseteq Messages
  BY TravellingMessages DEF Travelling
<1> QED
  BY <1>1, <1>2, ElementOfSeq, LenProperties

-----------------------------------------------------------------------------
(* Approval. *)

\* A log that buildFor returns was judged alone, or with a log of its delegator.
LEMMA BuiltLink ==
    ASSUME NEW M, NEW messages \in Seq(M), NEW opts, NEW built, "delegator" \in DOMAIN opts,
           NEW n \in Nat,
           \A link \in 0 .. n : built[link] = Built(messages, opts, built, link),
           NEW link \in 0 .. n, NEW id \in Identifiers(messages), NEW log \in built[link][id]
    PROVE \/ IsLogOf(log, EventsOf(messages, id), [opts EXCEPT !.delegator = Null])
             /\ ~(EventsOf(messages, id)[1].body.t = "dip"
                    /\ EventsOf(messages, id)[1].body.di \in Identifiers(messages))
          \/ /\ link - 1 \in 0 .. n
             /\ EventsOf(messages, id)[1].body.di \in Identifiers(messages)
             /\ \E l \in built[link - 1][EventsOf(messages, id)[1].body.di] :
                   IsLogOf(log, EventsOf(messages, id), [opts EXCEPT !.delegator = l])
<1>1. log \in Built(messages, opts, built, link)[id]
  OBVIOUS
<1>2. EventsOf(messages, id) \in Seq(M)
  BY EventsOfMessages
<1>3. PICK events \in Seq(M) : events = EventsOf(messages, id)
  BY <1>2
<1> DEFINE other == events[1].body.di
<1>4. Built(messages, opts, built, link)[id] =
          IF events[1].body.t = "dip" /\ other \in Identifiers(messages)
          THEN IF link = 0 THEN {}
               ELSE UNION {From(events, [opts EXCEPT !.delegator = l]) : l \in built[link - 1][other]}
          ELSE From(events, [opts EXCEPT !.delegator = Null])
  BY <1>3 DEF Built
<1> HIDE DEF other
<1>5. CASE events[1].body.t = "dip" /\ other \in Identifiers(messages)
  <2>1. link # 0 /\ link - 1 \in 0 .. n
    BY <1>1, <1>4, <1>5
  <2>2. log \in UNION {From(events, [opts EXCEPT !.delegator = l]) : l \in built[link - 1][other]}
    BY <1>1, <1>4, <1>5, <2>1
  <2>3. PICK l \in built[link - 1][other] : log \in From(events, [opts EXCEPT !.delegator = l])
    BY <2>2
  <2>4. IsLogOf(log, events, [opts EXCEPT !.delegator = l])
    BY <2>3, FromIsLog
  <2> QED
    BY <1>3, <1>5, <2>1, <2>3, <2>4 DEF other
<1>6. CASE ~(events[1].body.t = "dip" /\ other \in Identifiers(messages))
  <2>1. log \in From(events, [opts EXCEPT !.delegator = Null])
    BY <1>1, <1>4, <1>6
  <2>2. IsLogOf(log, events, [opts EXCEPT !.delegator = Null])
    BY <2>1, FromIsLog
  <2> QED
    BY <1>3, <1>6, <2>2 DEF other
<1> QED
  BY <1>5, <1>6

\* A delegation that verifies has a seal among the delegator's events.
LEMMA AnchorFound ==
    ASSUME NEW m, NEW l, VerifyDelegationAnchor(m, l)
    PROVE \E event \in Elements(l.events) : Anchors(event, EventRef(m.body))
<1> DEFINE applicable == {h \in m.hints : h.prefix \in {Null, l.state.identifier}}
<1>1. IF applicable = {}
      THEN \E event \in Elements(l.events) : Anchors(event, EventRef(m.body))
      ELSE \A hint \in applicable : \E event \in Elements(l.events) :
               HintedEvent(l.events, hint, event) /\ Anchors(event, EventRef(m.body))
  BY DEF VerifyDelegationAnchor, FindSealAnchor
<1> HIDE DEF applicable
<1> QED
  BY <1>1

\* An identifier of the stream has events in it.
LEMMA EventsOfSome ==
    ASSUME NEW M, NEW messages \in Seq(M), NEW aid \in Identifiers(messages)
    PROVE EventsOf(messages, aid) # <<>>
<1> DEFINE I == {x \in DOMAIN messages : messages[x].body.i = aid}
<1>1. I \in SUBSET (DOMAIN messages) /\ I # {}
  BY DEF Identifiers, Elements
<1> HIDE DEF I
<1>2. Selected(messages, I) # <<>>
  BY <1>1, SelectedMembers
<1> QED
  BY <1>2 DEF EventsOf, I

\* The delegator a log was judged with has sealed the log's inception.
Approves(log) ==
    /\ log.delegator # Null
    /\ \E m \in Elements(log.delegator.events) :
          /\ m.body.i = log.events[1].body.di
          /\ Anchors(m, EventRef(log.events[1].body))

NullIsNoLog ==
    \A events, state, delegator : Null # [events |-> events, state |-> state, delegator |-> delegator]

\* A delegate has one inception: its identifier is the digest of that event.
LEMMA SameInception ==
    ASSUME NEW dip \in Messages, NEW m \in Messages, dip.body.t = "dip", IsInception(m.body.t),
           dip.body.i = m.body.i
    PROVE m.body = dip.body
<1>1. PICK k \in Travelling : k.body = m.body
  BY DEF Messages
<1>2. PICK j \in Travelling : j.body = dip.body
  BY DEF Messages
<1> QED
  BY <1>1, <1>2, IntroductionAssumption

\* fromMessages, given the events of a delegate and those of its delegator, returns the
\* log of the delegate, judged with that of the delegator, or throws.
LEMMA DelegateApproved ==
    ASSUME NullIsNoLog, NEW messages \in Seq(Messages), NEW dip \in Elements(messages),
           dip.body.t = "dip",
           \A m \in Elements(messages) : m.body.i \in {dip.body.i, dip.body.di},
           Cardinality(Identifiers(messages)) > 1,
           NEW opts, "delegator" \in DOMAIN opts, opts.delegator = Null,
           NEW log \in FromMessages(messages, opts)
    PROVE Approves(log)
<1>1. /\ Len(messages) \in Nat /\ DOMAIN messages = 1 .. Len(messages)
      /\ \A m \in Elements(messages) : m \in Messages
  BY LenProperties, ElementOfSeq DEF Elements
<1>2. PICK aid, di : aid = dip.body.i /\ di = dip.body.di
  OBVIOUS
<1>3. aid \in Identifiers(messages) /\ Identifiers(messages) \subseteq {aid, di}
  BY <1>2 DEF Identifiers
<1>4. PICK n \in Nat : n = Cardinality(Identifiers(messages)) /\ n > 1
  BY IdentifiersFinite
<1>5. aid # di /\ di \in Identifiers(messages)
  <2>1. Identifiers(messages) # {aid}
    <3> SUFFICES ASSUME Identifiers(messages) = {aid} PROVE FALSE
      OBVIOUS
    <3>1. Cardinality({aid}) = 1
      BY FS_Singleton
    <3>2. n = 1
      BY <1>4, <3>1
    <3> QED
      BY <1>4, <3>2
  <2> QED
    BY <1>3, <2>1
<1>6. di \in Delegators(messages)
  <2> DEFINE Y == {y \in 1 .. Len(messages) : messages[y].body.t = "dip" /\ messages[y].body.i = aid}
  <2>1. Y # {} /\ Y \subseteq Nat
    BY <1>1, <1>2 DEF Elements
  <2>2. \A y \in Y : y \in DOMAIN messages /\ messages[y].body.t = "dip" /\ messages[y].body.i = aid
    BY <1>1
  <2>3. \A z \in DOMAIN messages : messages[z].body.t = "dip" /\ messages[z].body.i = aid => z \in Y
    BY <1>1
  <2> HIDE DEF Y
  <2>4. PICK y \in Y : \A z \in Y : y <= z
    BY <2>1, NatMin
  <2>5. \A z \in 1 .. y - 1 : ~(messages[z].body.t = "dip" /\ messages[z].body.i = messages[y].body.i)
    <3> SUFFICES ASSUME NEW z \in 1 .. y - 1, messages[z].body.t = "dip", messages[z].body.i = aid
                 PROVE FALSE
      BY <2>2
    <3>1. y \in Nat /\ y \in 1 .. Len(messages)
      BY <1>1, <2>2
    <3>2. z \in DOMAIN messages /\ ~(y <= z)
      BY <1>1, <3>1
    <3> QED
      BY <2>3, <2>4, <3>2
  <2>6. messages[y].body.di = di
    <3>1. messages[y] \in Messages /\ dip \in Messages /\ IsInception(messages[y].body.t)
      BY <1>1, <2>2 DEF Elements, IsInception
    <3>2. messages[y].body = dip.body
      BY <1>2, <2>2, <3>1, SameInception
    <3> QED
      BY <1>2, <3>2
  <2> QED
    BY <2>2, <2>5, <2>6 DEF Delegators
<1>7. log \in BuildFor(messages, aid, opts)
  <2>1. messages # <<>>
    <3>1. DOMAIN messages # {}
      BY DEF Elements
    <3> QED
      BY <3>1
  <2>2. PICK leaf \in Leaves(messages) : log \in BuildFor(messages, leaf, opts)
    BY <1>4, <2>1 DEF FromMessages
  <2>3. leaf = aid
    BY <1>3, <1>6 DEF Leaves
  <2> QED
    BY <2>2, <2>3
<1>8. PICK built :
        /\ BuildFor(messages, aid, opts) = built[n][aid]
        /\ \A link \in 0 .. n : built[link] = Built(messages, opts, built, link)
  BY <1>4, BuildRecursion
<1>9. PICK events \in Seq(Messages) : events = EventsOf(messages, aid) /\ events # <<>>
  BY <1>3, EventsOfMessages, EventsOfSome
<1>10. ASSUME NEW o, IsLogOf(log, events, o)
       PROVE events[1].body = dip.body
  <2>1. IsInception(events[1].body.t)
    BY <1>9, <1>10 DEF IsLogOf
  <2>2. 1 \in DOMAIN events
    BY <1>9, EmptySeq, LenProperties
  <2>3. events[1] \in Messages /\ events[1] \in Elements(events)
    BY <2>2, ElementOfSeq, LenProperties DEF Elements
  <2>4. events[1].body.i = aid
    BY <1>9, <2>3, EventsOfMessages
  <2> QED
    BY <1>1, <1>2, <2>1, <2>3, <2>4, SameInception
<1>11. /\ n \in 0 .. n /\ log \in built[n][aid]
  BY <1>7, <1>8
<1>12. PICK l : /\ n - 1 \in 0 .. n
                /\ l \in built[n - 1][di]
                /\ IsLogOf(log, events, [opts EXCEPT !.delegator = l])
  <2>1. \/ /\ IsLogOf(log, events, [opts EXCEPT !.delegator = Null])
           /\ ~(events[1].body.t = "dip" /\ events[1].body.di \in Identifiers(messages))
        \/ /\ n - 1 \in 0 .. n
           /\ \E l \in built[n - 1][events[1].body.di] :
                 IsLogOf(log, events, [opts EXCEPT !.delegator = l])
    <3>1. \/ IsLogOf(log, EventsOf(messages, aid), [opts EXCEPT !.delegator = Null])
             /\ ~(EventsOf(messages, aid)[1].body.t = "dip"
                    /\ EventsOf(messages, aid)[1].body.di \in Identifiers(messages))
          \/ /\ n - 1 \in 0 .. n
             /\ EventsOf(messages, aid)[1].body.di \in Identifiers(messages)
             /\ \E l \in built[n - 1][EventsOf(messages, aid)[1].body.di] :
                   IsLogOf(log, EventsOf(messages, aid), [opts EXCEPT !.delegator = l])
      BY <1>3, <1>8, <1>11, BuiltLink
    <3> QED
      BY <1>9, <3>1
  <2>2. CASE IsLogOf(log, events, [opts EXCEPT !.delegator = Null])
             /\ ~(events[1].body.t = "dip" /\ events[1].body.di \in Identifiers(messages))
    BY <1>2, <1>5, <1>10, <2>2
  <2>3. CASE n - 1 \in 0 .. n /\ \E l \in built[n - 1][events[1].body.di] :
                                    IsLogOf(log, events, [opts EXCEPT !.delegator = l])
    BY <1>2, <1>10, <2>3
  <2> QED
    BY <2>1, <2>2, <2>3
<1>13. /\ l.events = EventsOf(messages, di)
       /\ l = [events |-> l.events, state |-> l.state, delegator |-> l.delegator]
  <2>1. \E o : IsLogOf(l, EventsOf(messages, di), o)
    <3>1. PICK k \in 0 .. n : k = n - 1
      BY <1>12
    <3>2. l \in built[k][di]
      BY <1>12, <3>1
    <3>3. \/ IsLogOf(l, EventsOf(messages, di), [opts EXCEPT !.delegator = Null])
          \/ \E x \in built[k - 1][EventsOf(messages, di)[1].body.di] :
                   IsLogOf(l, EventsOf(messages, di), [opts EXCEPT !.delegator = x])
      BY <1>5, <1>8, <3>2, BuiltLink
    <3> QED
      BY <3>3
  <2> QED
    BY <2>1 DEF IsLogOf
<1>14. l # Null
  BY <1>13 DEF NullIsNoLog
<1>15. PICK o : o = [opts EXCEPT !.delegator = l]
  OBVIOUS
<1>16. IsLogOf(log, events, o) /\ o.delegator = l
  BY <1>12, <1>15
<1>17. /\ log.delegator = l /\ log.events = events
       /\ events[1].body.t = "dip" => VerifyDelegationAnchor(events[1], l)
  BY <1>9, <1>14, <1>16 DEF IsLogOf
<1>18. events[1].body = dip.body
  BY <1>10, <1>16
<1>19. PICK event \in Elements(l.events) : Anchors(event, EventRef(events[1].body))
  BY <1>17, <1>18, AnchorFound
<1>20. event.body.i = di
  BY <1>13, EventsOfMessages
<1> QED
  BY <1>2, <1>14, <1>17, <1>18, <1>19, <1>20 DEF Approves

\* Every row is where the identifier of its event puts it.
Owned(table) == \A aid \in Aids : \A m \in Elements(table[aid]) : m.body.i = aid

Keeps(old, new) == \A aid \in Aids : \A d : Stores(old[aid], d) => Stores(new[aid], d)

\* A table in which the rows of one identifier have grown.
LEMMA TableGrown ==
    ASSUME NEW table \in [Aids -> Seq(Messages)], NEW id \in Aids, NEW after, NEW more,
           Grown(table[id], after, more, Messages)
    PROVE /\ [table EXCEPT ![id] = after] \in [Aids -> Seq(Messages)]
          /\ Keeps(table, [table EXCEPT ![id] = after])
<1> DEFINE new == [table EXCEPT ![id] = after]
<1>1. after \in Seq(Messages)
  BY DEF Grown
<1>2. new[id] = after /\ \A aid \in Aids : aid # id => new[aid] = table[aid]
  OBVIOUS
<1>3. new \in [Aids -> Seq(Messages)]
  BY <1>1
<1> HIDE DEF new
<1>4. \A d : Stores(table[id], d) => Stores(after, d)
  BY GrownStores
<1>5. Keeps(table, new)
  <2> SUFFICES ASSUME NEW aid \in Aids, NEW d, Stores(table[aid], d) PROVE Stores(new[aid], d)
    BY DEF Keeps
  <2>1. CASE aid = id
    BY <1>2, <1>4, <2>1
  <2>2. CASE aid # id
    BY <1>2, <2>2
  <2> QED
    BY <2>1, <2>2
<1> QED
  BY <1>3, <1>5 DEF new

\* The new rows are where they belong, if the messages are.
LEMMA TableOwned ==
    ASSUME NEW table \in [Aids -> Seq(Messages)], NEW id \in Aids, NEW after, NEW more,
           Grown(table[id], after, more, Messages), Owned(table), \A m \in more : m.body.i = id
    PROVE Owned([table EXCEPT ![id] = after])
<1> DEFINE new == [table EXCEPT ![id] = after]
<1>1. new[id] = after /\ \A aid \in Aids : aid # id => new[aid] = table[aid]
  OBVIOUS
<1> HIDE DEF new
<1> SUFFICES ASSUME NEW aid \in Aids, NEW m \in Elements(new[aid]) PROVE m.body.i = aid
  BY DEF Owned, new
<1>2. CASE aid = id
  <2>1. \/ \E row \in Elements(table[id]) : m.body = row.body
        \/ \E k \in more : m.body = k.body
    BY <1>1, <1>2 DEF Grown
  <2> QED
    BY <1>2, <2>1 DEF Owned
<1>3. CASE aid # id
  BY <1>1, <1>3 DEF Owned
<1> QED
  BY <1>2, <1>3

\* The events an introduce call has judged, and those it has still to take.
Judged ==
    Elements(call.log.events) \cup
    (IF call.log.delegator # Null THEN Elements(call.log.delegator.events) ELSE {})

Remaining == IF call.pc = "running" THEN Elements(call.events) ELSE {}

\* The event is stored, or the call under way will take it or fail.
Due(id, d) ==
    /\ id \in Aids
    /\ Stores(rows[id], d) \/ \E m \in Remaining : m.body.i = id /\ m.body.d = d

Typed ==
    /\ hosted \in [Aids -> Seq(Messages)] /\ Owned(hosted)
    /\ rows \in [Aids -> Seq(Messages)]
    /\ \A rpy \in endRoles \cup replies : rpy.cid \in Aids
    /\ call.pc \in {"idle", "running", "returned"}
    /\ call.pc = "running" =>
          /\ DOMAIN call = {"pc", "log", "about", "events", "others"}
          /\ call.events \in Seq(Messages)

\* The host stores the event that an end role is sealed to.
HostBacked == \A rpy \in endRoles : Stores(hosted[rpy.cid], rpy.seal.d)

JudgedIsDue == call.pc # "idle" => \A m \in Judged : m \in Messages /\ Due(m.body.i, m.body.d)

RepliesDue == call.pc = "running" => \A rpy \in call.others : Due(rpy.cid, rpy.seal.d)

IInv == Typed /\ HostBacked /\ JudgedIsDue /\ RepliesDue /\ ReplyBacked

\* Nothing is stored and no call is under way.
LEMMA InitIInv == Init => IInv
<1> SUFFICES ASSUME Init PROVE IInv
  OBVIOUS
<1>1. call.pc = "idle"
  BY DEF Init, NoCall
<1>2. <<>> \in Seq(Messages) /\ Elements(<<>>) = {}
  BY DEF Elements
<1>3. Typed
  BY <1>1, <1>2 DEF Init, Typed, Owned
<1> QED
  BY <1>1, <1>3 DEF Init, IInv, HostBacked, JudgedIsDue, RepliesDue, ReplyBacked

\* What is due stays due when the table only grows and an event leaves the call
\* only by being stored.
LEMMA StaysDue ==
    ASSUME Keeps(rows, rows'),
           \A m \in Remaining : m \in Remaining' \/ Stores(rows'[m.body.i], m.body.d),
           NEW id, NEW d, Due(id, d)
    PROVE Due(id, d)'
<1>1. id \in Aids
  BY DEF Due
<1>2. CASE Stores(rows[id], d)
  <2>1. Stores(rows'[id], d)
    BY <1>1, <1>2 DEF Keeps
  <2> QED
    BY <1>1, <2>1 DEF Due
<1>3. CASE \E m \in Remaining : m.body.i = id /\ m.body.d = d
  <2>1. PICK m \in Remaining : m.body.i = id /\ m.body.d = d
    BY <1>3
  <2>2. CASE m \in Remaining'
    BY <1>1, <2>1, <2>2 DEF Due
  <2>3. CASE Stores(rows'[m.body.i], m.body.d)
    BY <1>1, <2>1, <2>3 DEF Due
  <2> QED
    BY <2>2, <2>3
<1> QED
  BY <1>2, <1>3 DEF Due

\* A table that does not change forgets nothing.
LEMMA SameKeeps == ASSUME NEW table PROVE Keeps(table, table)
BY DEF Keeps

\* A reply that is backed stays so in a table that grows.
LEMMA RepliesStayBacked ==
    ASSUME IInv, Keeps(rows, rows'), UNCHANGED replies
    PROVE ReplyBacked'
BY DEF IInv, Typed, ReplyBacked, Keeps

\* A step that changes the receiver's table only, and only by growing it.
LEMMA RowsGrown ==
    ASSUME IInv, rows' \in [Aids -> Seq(Messages)], Keeps(rows, rows'),
           UNCHANGED <<hosted, endRoles, replies, call>>
    PROVE IInv'
<1>1. Typed'
  BY DEF IInv, Typed
<1>2. HostBacked'
  BY DEF IInv, HostBacked
<1>3. Remaining' = Remaining /\ Judged' = Judged
  BY DEF Remaining, Judged
<1>4. \A id, d : Due(id, d) => Due(id, d)'
  BY <1>3, StaysDue
<1>5. JudgedIsDue'
  BY <1>3, <1>4 DEF IInv, JudgedIsDue
<1>6. RepliesDue'
  BY <1>4 DEF IInv, RepliesDue
<1> QED
  BY <1>1, <1>2, <1>5, <1>6, RepliesStayBacked DEF IInv

\* enroll stores the log it judged, and the end role is sealed to an event of it.
LEMMA EnrollStep ==
    ASSUME IInv, NEW aid \in Aids, NEW n \in 1 .. Len(History[aid]), NEW kel \in Posts(aid, n),
           NEW rpy, Enroll(kel, rpy)
    PROVE IInv'
<1>1. kel \in Seq(Messages)
  <2>1. Len(History[aid]) \in Nat
    <3>1. History[aid] \in Seq(Elements(History[aid]))
      BY IntroductionAssumption
    <3> QED
      BY <3>1, LenProperties
  <2>2. n \in Nat
    BY <2>1
  <2>3. kel \in [1 .. n -> Messages]
    BY TravellingMessages DEF Posts, SentFor, Travelling
  <2> QED
    BY <2>2, <2>3, SeqDef
<1>2. PICK log \in FromMessages(kel, PartiallyWitnessed) :
        /\ HasState(log)
        /\ rpy.cid = log.state.identifier
        /\ VerifyReply(rpy, log.state)
        /\ hosted' = [hosted EXCEPT ![log.state.identifier] = SaveAll(@, log.events)]
  BY DEF Enroll
<1>3. "delegator" \in DOMAIN PartiallyWitnessed /\ PartiallyWitnessed.delegator = Null
  BY DEF PartiallyWitnessed, Options
<1>4. PICK events, opts, owner :
        /\ events \in Seq(Messages)
        /\ IsLogOf(log, events, opts)
        /\ OwnedBy(owner, events)
  <2>1. StreamLog(log, kel, Messages)
    BY <1>1, <1>2, <1>3, FromMessagesIsLog
  <2>2. PICK events \in Seq(Messages) : \E opts, owner :
          /\ IsLogOf(log, events, opts)
          /\ OwnedBy(owner, events)
    BY <2>1 DEF StreamLog
  <2> QED
    BY <2>2
<1>5. log.events = events /\ events # <<>>
  BY <1>2, <1>4 DEF IsLogOf, HasState
<1>6. /\ log.state.identifier = events[1].body.i
      /\ \E x \in DOMAIN events : log.state.lastEstablishment = EventRef(events[x].body)
  BY <1>4, <1>5 DEF IsLogOf
<1>7. 1 \in DOMAIN events
  <2>1. events \in Seq(Messages) /\ events # <<>>
    BY <1>4, <1>5
  <2> QED
    BY <2>1, EmptySeq, LenProperties
<1>8. owner \in Aids /\ log.state.identifier = owner
  <2>1. events[1] \in Elements(events)
    BY <1>7 DEF Elements
  <2>2. events[1] \in Messages
    BY <1>4, <1>7, ElementOfSeq, LenProperties
  <2> QED
    BY <1>4, <1>6, <2>1, <2>2, TravellingMessages DEF OwnedBy
<1>9. PICK after : after = SaveAll(hosted[owner], events)
  OBVIOUS
<1>10. hosted' = [hosted EXCEPT ![owner] = after]
  BY <1>2, <1>5, <1>8, <1>9
<1>11. hosted \in [Aids -> Seq(Messages)] /\ Owned(hosted) /\ hosted[owner] \in Seq(Messages)
  BY <1>8 DEF IInv, Typed
<1>12. /\ Grown(hosted[owner], after, Elements(events), Messages)
       /\ \A m \in Elements(events) : Stores(after, m.body.d)
  <2>1. Closed(Messages) /\ events \in Seq(Messages) /\ hosted[owner] \in Seq(Messages)
    BY <1>4, <1>11, TravellingMessages
  <2>2. /\ Grown(hosted[owner], SaveAll(hosted[owner], events), Elements(events), Messages)
        /\ \A m \in Elements(events) : Stores(SaveAll(hosted[owner], events), m.body.d)
    BY <2>1, AllSaved
  <2> QED
    BY <1>9, <2>2
<1>13. hosted' \in [Aids -> Seq(Messages)] /\ Keeps(hosted, hosted') /\ Owned(hosted')
  BY <1>4, <1>8, <1>10, <1>11, <1>12, TableGrown, TableOwned DEF OwnedBy
<1>14. Stores(hosted'[rpy.cid], rpy.seal.d) /\ rpy.cid \in Aids
  <2>1. PICK x \in DOMAIN events : log.state.lastEstablishment = EventRef(events[x].body)
    BY <1>6
  <2>2. rpy.seal.d = events[x].body.d
    BY <1>2, <2>1 DEF VerifyReply, EventRef
  <2>3. Stores(after, rpy.seal.d)
    BY <1>12, <2>2 DEF Elements
  <2> QED
    BY <1>2, <1>8, <1>10, <1>11, <2>3
<1>15. endRoles' = endRoles \cup {rpy} /\ UNCHANGED <<rows, replies, call>>
  BY DEF Enroll
<1>16. Typed'
  BY <1>13, <1>14, <1>15 DEF IInv, Typed
<1>17. HostBacked'
  <2>1. ASSUME NEW r \in endRoles PROVE Stores(hosted'[r.cid], r.seal.d)
    BY <1>13 DEF IInv, Typed, HostBacked, Keeps
  <2> QED
    BY <1>14, <1>15, <2>1 DEF HostBacked
<1>18. JudgedIsDue' /\ RepliesDue' /\ ReplyBacked'
  BY <1>15 DEF IInv, JudgedIsDue, RepliesDue, ReplyBacked, Judged, Due, Remaining
<1> QED
  BY <1>16, <1>17, <1>18 DEF IInv

\* The host's table grows by what is pushed at it.
LEMMA IntakeStep ==
    ASSUME IInv, NEW m \in Sent, Intake(m)
    PROVE IInv'
<1>1. m \in Messages /\ m.body.i \in Aids
  BY TravellingMessages DEF Travelling
<1>2. PICK id \in Aids : id = m.body.i
  BY <1>1
<1>3. PICK after : after = SaveMessage(hosted[id], m)
  OBVIOUS
<1>4. hosted' = [hosted EXCEPT ![id] = after] /\ UNCHANGED <<endRoles, rows, replies, call>>
  BY <1>2, <1>3 DEF Intake
<1>5. hosted \in [Aids -> Seq(Messages)] /\ Owned(hosted) /\ hosted[id] \in Seq(Messages)
  BY DEF IInv, Typed
<1>6. Grown(hosted[id], after, {m}, Messages)
  BY <1>1, <1>3, <1>2, <1>5, TravellingMessages, SavedGrows
<1>7. hosted' \in [Aids -> Seq(Messages)] /\ Keeps(hosted, hosted') /\ Owned(hosted')
  <2>1. \A k \in {m} : k.body.i = id
    BY <1>2
  <2>2. PICK new : new = [hosted EXCEPT ![id] = after]
    OBVIOUS
  <2>3. new \in [Aids -> Seq(Messages)] /\ Keeps(hosted, new)
    BY <1>5, <1>6, <2>2, TableGrown
  <2>4. Owned(new)
    <3>1. PICK more : more = {m}
      OBVIOUS
    <3>2. Grown(hosted[id], after, more, Messages) /\ \A k \in more : k.body.i = id
      BY <1>6, <2>1, <3>1
    <3> QED
      BY <1>5, <2>2, <3>2, TableOwned
  <2> QED
    BY <1>4, <2>2, <2>3, <2>4
<1>8. Typed'
  BY <1>4, <1>7 DEF IInv, Typed
<1>9. HostBacked'
  BY <1>4, <1>7 DEF IInv, Typed, HostBacked, Keeps
<1>10. JudgedIsDue' /\ RepliesDue' /\ ReplyBacked'
  BY <1>4 DEF IInv, JudgedIsDue, RepliesDue, ReplyBacked, Judged, Due, Remaining
<1> QED
  BY <1>8, <1>9, <1>10 DEF IInv

\* Two logs one after the other have the events of both.
LEMMA ConcatElements ==
    ASSUME NEW M, NEW a \in Seq(M), NEW b \in Seq(M)
    PROVE a \o b \in Seq(M) /\ Elements(a \o b) = Elements(a) \cup Elements(b)
<1>1. /\ a \o b \in Seq(M) /\ Len(a \o b) = Len(a) + Len(b)
      /\ \A x \in 1 .. Len(a) + Len(b) : (a \o b)[x] = IF x <= Len(a) THEN a[x] ELSE b[x - Len(a)]
  BY ConcatProperties
<1>2. /\ Len(a) \in Nat /\ Len(b) \in Nat /\ DOMAIN a = 1 .. Len(a) /\ DOMAIN b = 1 .. Len(b)
      /\ DOMAIN (a \o b) = 1 .. Len(a) + Len(b)
  BY <1>1, LenProperties
<1>3. \A x \in DOMAIN a : x \in DOMAIN (a \o b) /\ (a \o b)[x] = a[x]
  BY <1>1, <1>2
<1>4. \A x \in 1 .. Len(b) : /\ Len(a) + x \in 1 .. Len(a) + Len(b)
                             /\ ~(Len(a) + x <= Len(a))
                             /\ Len(a) + x - Len(a) = x
  BY <1>2
<1>5. \A x \in DOMAIN b : Len(a) + x \in DOMAIN (a \o b) /\ (a \o b)[Len(a) + x] = b[x]
  BY <1>1, <1>2, <1>4
<1>6. ASSUME NEW x \in DOMAIN (a \o b) PROVE (a \o b)[x] \in Elements(a) \cup Elements(b)
  <2>1. CASE x <= Len(a)
    BY <1>1, <1>2, <2>1 DEF Elements
  <2>2. CASE ~(x <= Len(a))
    <3>1. x - Len(a) \in DOMAIN b
      BY <1>2, <2>2
    <3> QED
      BY <1>1, <1>2, <2>2, <3>1 DEF Elements
  <2> QED
    BY <2>1, <2>2
<1>7. Elements(a) \subseteq Elements(a \o b) /\ Elements(b) \subseteq Elements(a \o b)
  BY <1>3, <1>5 DEF Elements
<1>8. Elements(a \o b) \subseteq Elements(a) \cup Elements(b)
  BY <1>6 DEF Elements
<1> QED
  BY <1>1, <1>7, <1>8

\* An answer is the log of the identifier, or its delegator's before it.
LEMMA AnswerHoldsLog ==
    ASSUME IInv, NEW aid \in Aids, NEW messages \in Answers(aid)
    PROVE /\ messages \in Seq(Messages)
          /\ Elements(hosted[aid]) \subseteq Elements(messages)
          /\ \/ \A m \in Elements(messages) : m.body.i = aid
             \/ \E dip \in Elements(messages) :
                   /\ dip.body.t = "dip" /\ dip.body.i = aid
                   /\ \A m \in Elements(messages) : m.body.i \in {aid, dip.body.di}
<1>1. hosted \in [Aids -> Seq(Messages)] /\ Owned(hosted)
  BY DEF IInv, Typed
<1>2. CASE messages = hosted[aid]
  BY <1>1, <1>2 DEF Owned
<1>3. ASSUME NEW m \in Elements(hosted[aid]), m.body.t = "dip", messages = hosted[m.body.di] \o hosted[aid]
      PROVE /\ messages \in Seq(Messages)
            /\ Elements(messages) = Elements(hosted[m.body.di]) \cup Elements(hosted[aid])
            /\ m.body.di \in Aids
  <2>1. m \in Messages
    BY <1>1, ElementOfSeq, LenProperties DEF Elements
  <2>2. m.body.di \in Aids
    BY <1>3, <2>1, TravellingMessages
  <2>3. hosted[m.body.di] \in Seq(Messages) /\ hosted[aid] \in Seq(Messages)
    BY <1>1, <2>2
  <2> QED
    BY <1>3, <2>2, <2>3, ConcatElements
<1>4. ASSUME NEW m \in Elements(hosted[aid]), m.body.t = "dip", messages = hosted[m.body.di] \o hosted[aid]
      PROVE /\ m \in Elements(messages) /\ m.body.i = aid
            /\ \A k \in Elements(messages) : k.body.i \in {aid, m.body.di}
  BY <1>1, <1>3, <1>4 DEF Owned
<1> QED
  BY <1>2, <1>3, <1>4 DEF Answers

\* What the call has judged it still has to take, and so the events its end roles are
\* sealed to.
LEMMA IntroduceStep ==
    ASSUME IInv, NEW aid \in Aids, Introduce(aid)
    PROVE IInv'
<1>1. PICK messages \in Answers(aid) : \E log \in FromMessages(messages, PartiallyWitnessed) :
        call' = [pc |-> "running", log |-> log, about |-> Identifiers(messages),
                 events |-> messages, others |-> {r \in endRoles : r.cid = aid}]
  BY DEF Introduce
<1>2. PICK log \in FromMessages(messages, PartiallyWitnessed) :
        call' = [pc |-> "running", log |-> log, about |-> Identifiers(messages),
                 events |-> messages, others |-> {r \in endRoles : r.cid = aid}]
  BY <1>1
<1>3. UNCHANGED <<hosted, endRoles, rows, replies>>
  BY DEF Introduce
<1>4. messages \in Seq(Messages) /\ Elements(hosted[aid]) \subseteq Elements(messages)
  BY AnswerHoldsLog
<1>5. "delegator" \in DOMAIN PartiallyWitnessed /\ PartiallyWitnessed.delegator = Null
  BY DEF PartiallyWitnessed, Options
<1>6. PICK events, opts :
        /\ events \in Seq(Messages)
        /\ IsLogOf(log, events, opts)
        /\ Elements(events) \subseteq Elements(messages)
        /\ opts.delegator # Null => Elements(opts.delegator.events) \subseteq Elements(messages)
  BY <1>4, <1>5, FromMessagesIsLog DEF StreamLog
<1>7. Judged' \subseteq Elements(messages) /\ Remaining' = Elements(messages)
  BY <1>2, <1>6 DEF Judged, Remaining, IsLogOf
<1>8. \A m \in Elements(messages) : m \in Messages /\ m.body.i \in Aids
  BY <1>4, TravellingMessages, ElementOfSeq, LenProperties DEF Elements
<1>9. Typed'
  BY <1>2, <1>3, <1>4 DEF IInv, Typed
<1>10. JudgedIsDue'
  BY <1>7, <1>8 DEF JudgedIsDue, Due
<1>11. RepliesDue'
  <2> SUFFICES ASSUME NEW rpy \in endRoles, rpy.cid = aid PROVE Due(rpy.cid, rpy.seal.d)'
    BY <1>2 DEF RepliesDue
  <2>1. PICK m \in Elements(hosted[aid]) : m.body.d = rpy.seal.d
    BY DEF IInv, HostBacked, Stores
  <2>2. m.body.i = aid
    BY DEF IInv, Typed, Owned
  <2> QED
    BY <1>4, <1>7, <2>1, <2>2 DEF Due
<1> QED
  BY <1>3, <1>9, <1>10, <1>11 DEF IInv, HostBacked, ReplyBacked

\* An event leaves the call by being stored, or the call is over.
LEMMA ProcessEventStep ==
    ASSUME IInv, ProcessEvent
    PROVE IInv'
<1>1. /\ call.pc = "running" /\ call.events # <<>> /\ call.events \in Seq(Messages)
      /\ DOMAIN call = {"pc", "log", "about", "events", "others"}
      /\ UNCHANGED <<hosted, endRoles, replies>>
  BY DEF ProcessEvent, IInv, Typed
<1>2. PICK events \in Seq(Messages) : events = call.events /\ events # <<>>
  BY <1>1
<1>3. /\ Head(events) \in Messages /\ Tail(events) \in Seq(Messages)
      /\ Elements(events) = {Head(events)} \cup Elements(Tail(events))
  <2>1. Head(events) \in Messages /\ Tail(events) \in Seq(Messages) /\ Head(events) = events[1]
    BY <1>2, HeadTailProperties
  <2>2. /\ Len(events) \in Nat /\ Len(events) # 0 /\ DOMAIN events = 1 .. Len(events)
        /\ Len(Tail(events)) = Len(events) - 1
        /\ DOMAIN Tail(events) = 1 .. Len(Tail(events))
        /\ \A x \in 1 .. Len(Tail(events)) : Tail(events)[x] = events[x + 1]
    BY <1>2, <2>1, HeadTailProperties, LenProperties, EmptySeq
  <2>3. \A x \in DOMAIN Tail(events) : x + 1 \in DOMAIN events /\ Tail(events)[x] = events[x + 1]
    BY <2>2
  <2>4. \A x \in DOMAIN events : x # 1 => x - 1 \in DOMAIN Tail(events) /\ events[x] = Tail(events)[x - 1]
    <3> SUFFICES ASSUME NEW x \in 1 .. Len(events), x # 1
                 PROVE x - 1 \in DOMAIN Tail(events) /\ events[x] = Tail(events)[x - 1]
      BY <2>2
    <3>1. x - 1 \in 1 .. Len(Tail(events)) /\ (x - 1) + 1 = x
      BY <2>2
    <3> QED
      BY <2>2, <3>1
  <2>5. 1 \in DOMAIN events
    BY <2>2
  <2>6. Elements(Tail(events)) \subseteq Elements(events) /\ Head(events) \in Elements(events)
    BY <2>1, <2>3, <2>5 DEF Elements
  <2>7. Elements(events) \subseteq {Head(events)} \cup Elements(Tail(events))
    <3> SUFFICES ASSUME NEW x \in DOMAIN events PROVE events[x] \in {Head(events)} \cup Elements(Tail(events))
      BY DEF Elements
    <3>1. CASE x = 1
      BY <2>1, <3>1
    <3>2. CASE x # 1
      BY <2>4, <3>2 DEF Elements
    <3> QED
      BY <3>1, <3>2
  <2> QED
    BY <2>1, <2>6, <2>7
<1>4. PICK m \in Messages, rest \in Seq(Messages) : m = Head(call.events) /\ rest = Tail(call.events)
  BY <1>2, <1>3
<1>5. Remaining = {m} \cup Elements(rest)
  BY <1>1, <1>2, <1>3, <1>4 DEF Remaining
<1>6. CASE call' = NoCall /\ UNCHANGED rows
  BY <1>1, <1>6
     DEF NoCall, IInv, Typed, HostBacked, JudgedIsDue, RepliesDue, ReplyBacked
<1>7. ASSUME NEW after \in ProcessMessage(rows[m.body.i], m), rows' = [rows EXCEPT ![m.body.i] = after],
             call' = [call EXCEPT !.events = Tail(@)]
      PROVE IInv'
  <2>1. PICK id \in Aids : id = m.body.i
    BY TravellingMessages
  <2>2. rows \in [Aids -> Seq(Messages)]
    BY DEF IInv, Typed
  <2>3. Grown(rows[id], after, {m}, Messages) /\ Stores(after, m.body.d)
    BY <1>7, <2>1, <2>2, TravellingMessages, Processed
  <2>4. rows' \in [Aids -> Seq(Messages)] /\ Keeps(rows, rows')
    BY <1>7, <2>1, <2>2, <2>3, TableGrown
  <2>5. Stores(rows'[m.body.i], m.body.d)
    BY <1>7, <2>1, <2>2, <2>3
  <2>6. /\ call'.pc = "running" /\ call'.events = rest /\ call'.log = call.log
        /\ call'.others = call.others
        /\ DOMAIN call' = {"pc", "log", "about", "events", "others"}
    BY <1>1, <1>4, <1>7
  <2>7. Judged' = Judged /\ Remaining' = Elements(rest)
    BY <2>6 DEF Judged, Remaining
  <2>8. \A k \in Remaining : k \in Remaining' \/ Stores(rows'[k.body.i], k.body.d)
    BY <1>5, <2>5, <2>7
  <2>9. \A id0, d0 : Due(id0, d0) => Due(id0, d0)'
    BY <2>4, <2>8, StaysDue
  <2>10. Typed'
    BY <1>1, <2>4, <2>6 DEF IInv, Typed
  <2>11. JudgedIsDue'
    BY <1>1, <2>7, <2>9 DEF IInv, JudgedIsDue
  <2>12. RepliesDue'
    BY <1>1, <2>6, <2>9 DEF IInv, RepliesDue
  <2> QED
    BY <1>1, <2>4, <2>10, <2>11, <2>12, RepliesStayBacked DEF IInv, HostBacked
<1> QED
  BY <1>4, <1>6, <1>7 DEF ProcessEvent

\* With no event left, what the reply is sealed to has been stored.
LEMMA ProcessReplyStep ==
    ASSUME IInv, NEW rpy, ProcessReply(rpy)
    PROVE IInv'
<1>1. /\ call.pc = "running" /\ call.events = <<>> /\ rpy \in call.others
      /\ replies' = replies \cup {rpy}
      /\ call' = [call EXCEPT !.others = @ \ {rpy}]
      /\ UNCHANGED <<hosted, endRoles, rows>>
  BY DEF ProcessReply
<1>2. DOMAIN call = {"pc", "log", "about", "events", "others"}
  BY <1>1 DEF IInv, Typed
<1>3. /\ call'.pc = "running" /\ call'.events = call.events /\ call'.log = call.log
      /\ call'.others = call.others \ {rpy}
      /\ DOMAIN call' = {"pc", "log", "about", "events", "others"}
  BY <1>1, <1>2
<1>4. Remaining = {} /\ Remaining' = {} /\ Judged' = Judged
  BY <1>1, <1>3 DEF Remaining, Judged, Elements
<1>5. \A id, d : Due(id, d) => Due(id, d)'
  BY <1>1, <1>4 DEF Due
<1>6. rpy.cid \in Aids /\ Stores(rows[rpy.cid], rpy.seal.d)
  <2>1. Due(rpy.cid, rpy.seal.d)
    BY <1>1 DEF IInv, RepliesDue
  <2> QED
    BY <1>4, <2>1 DEF Due
<1>7. Typed'
  BY <1>1, <1>3, <1>6 DEF IInv, Typed
<1>8. JudgedIsDue' /\ RepliesDue'
  BY <1>1, <1>3, <1>4, <1>5 DEF IInv, JudgedIsDue, RepliesDue
<1>9. ReplyBacked'
  BY <1>1, <1>6 DEF IInv, ReplyBacked
<1> QED
  BY <1>1, <1>7, <1>8, <1>9 DEF IInv, HostBacked

\* With no event left, all that was judged has been stored.
LEMMA ReturnStep ==
    ASSUME IInv, Return
    PROVE IInv'
<1>1. /\ call.pc = "running" /\ call.events = <<>>
      /\ call' = [pc |-> "returned", log |-> call.log, about |-> call.about]
      /\ UNCHANGED <<hosted, endRoles, rows, replies>>
  BY DEF Return
<1>2. Remaining = {} /\ Remaining' = {} /\ Judged' = Judged
  BY <1>1 DEF Remaining, Judged, Elements
<1>3. JudgedIsDue'
  BY <1>1, <1>2 DEF IInv, JudgedIsDue, Due
<1>4. call'.pc = "returned"
  BY <1>1
<1> QED
  BY <1>1, <1>3, <1>4 DEF IInv, Typed, HostBacked, RepliesDue, ReplyBacked

\* An event that arrives by itself makes the table grow.
LEMMA DeliverStep ==
    ASSUME IInv, NEW m \in Sent, Deliver(m)
    PROVE IInv'
<1>1. m \in Messages /\ m.body.i \in Aids
  BY TravellingMessages DEF Travelling
<1>2. PICK id \in Aids : id = m.body.i
  BY <1>1
<1>3. PICK after \in ProcessMessage(rows[id], m) : rows' = [rows EXCEPT ![id] = after]
  BY <1>2 DEF Deliver
<1>4. rows \in [Aids -> Seq(Messages)]
  BY DEF IInv, Typed
<1>5. Grown(rows[id], after, {m}, Messages)
  BY <1>1, <1>3, <1>4, TravellingMessages, Processed
<1>6. rows' \in [Aids -> Seq(Messages)] /\ Keeps(rows, rows')
  BY <1>3, <1>4, <1>5, TableGrown
<1> QED
  BY <1>6, RowsGrown DEF Deliver

\* So does one that is stored unverified.
LEMMA ForwardedStep ==
    ASSUME IInv, NEW aid \in Aids, NEW n \in 1 .. Len(History[aid]), Forwarded(aid, n)
    PROVE IInv'
<1>1. PICK m \in Messages : m = History[aid][n]
  BY HistoryMessages
<1>2. PICK after : after = SaveMessage(rows[aid], m)
  OBVIOUS
<1>3. rows' = [rows EXCEPT ![aid] = after]
  BY <1>1, <1>2 DEF Forwarded
<1>4. rows \in [Aids -> Seq(Messages)]
  BY DEF IInv, Typed
<1>5. Grown(rows[aid], after, {m}, Messages)
  BY <1>2, <1>4, TravellingMessages, SavedGrows
<1>6. rows' \in [Aids -> Seq(Messages)] /\ Keeps(rows, rows')
  BY <1>3, <1>4, <1>5, TableGrown
<1> QED
  BY <1>6, RowsGrown DEF Forwarded

\* Every step keeps the invariant.
LEMMA NextIInv == IInv /\ [Next]_vars => IInv'
<1> SUFFICES ASSUME IInv, [Next]_vars PROVE IInv'
  OBVIOUS
<1>1. ASSUME NEW aid \in Aids, NEW n \in 1 .. Len(History[aid]), NEW kel \in Posts(aid, n),
             NEW rpy \in EndRolesOf(aid), Enroll(kel, rpy)
      PROVE IInv'
  BY <1>1, EnrollStep
<1>2. ASSUME NEW m \in Sent, Intake(m) PROVE IInv'
  BY <1>2, IntakeStep
<1>3. ASSUME NEW aid \in Aids, Introduce(aid) PROVE IInv'
  BY <1>3, IntroduceStep
<1>4. CASE ProcessEvent
  BY <1>4, ProcessEventStep
<1>5. ASSUME NEW rpy, ProcessReply(rpy) PROVE IInv'
  BY <1>5, ProcessReplyStep
<1>6. CASE Return
  BY <1>6, ReturnStep
<1>7. ASSUME NEW m \in Sent, Deliver(m) PROVE IInv'
  BY <1>7, DeliverStep
<1>8. ASSUME NEW aid \in Aids, NEW n \in 1 .. Len(History[aid]), Forwarded(aid, n) PROVE IInv'
  BY <1>8, ForwardedStep
<1>9. CASE UNCHANGED vars
  BY <1>9 DEF vars, IInv, Typed, HostBacked, JudgedIsDue, RepliesDue, ReplyBacked, Judged, Due, Remaining
<1> QED
  BY <1>1, <1>2, <1>3, <1>4, <1>5, <1>6, <1>7, <1>8, <1>9 DEF Next

\* The invariant holds in every reachable state.
LEMMA Invariant == Spec => []IInv
<1> QED
  BY InitIInv, NextIInv, PTL DEF Spec

\* introduce: when it returns, the whole log it judged, and that of the delegator, is in
\* the table, whatever other work was done on the table meanwhile.
THEOREM Held == Spec => []IntroducedIsHeld
<1>1. IInv => IntroducedIsHeld
  <2> SUFFICES ASSUME IInv, call.pc = "returned" PROVE IntroducedIsHeld
    BY DEF IntroducedIsHeld
  <2>1. Remaining = {}
    BY DEF Remaining
  <2>2. \A m \in Judged : Stores(rows[m.body.i], m.body.d)
    BY <2>1 DEF IInv, JudgedIsDue, Due
  <2> QED
    BY <2>2 DEF IntroducedIsHeld, Judged
<1> QED
  BY <1>1, Invariant, PTL

\* introduce: a stored end role is sealed to an event the receiver has stored, although
\* replies are stored unverified.
THEOREM Backed == Spec => []ReplyBacked
<1>1. IInv => ReplyBacked
  BY DEF IInv
<1> QED
  BY <1>1, Invariant, PTL

\* An identifier judged with its delegator's events was approved.
Approval == call.pc # "idle" /\ Cardinality(call.about) > 1 => Approves(call.log)

\* The log introduce judges, if its delegator's events came with it, was approved.
LEMMA IntroduceApproved ==
    ASSUME NullIsNoLog, IInv, NEW aid \in Aids, Introduce(aid)
    PROVE Approval'
<1>1. PICK messages \in Answers(aid) : \E log \in FromMessages(messages, PartiallyWitnessed) :
        call' = [pc |-> "running", log |-> log, about |-> Identifiers(messages),
                 events |-> messages, others |-> {r \in endRoles : r.cid = aid}]
  BY DEF Introduce
<1>2. PICK log \in FromMessages(messages, PartiallyWitnessed) :
        call' = [pc |-> "running", log |-> log, about |-> Identifiers(messages),
                 events |-> messages, others |-> {r \in endRoles : r.cid = aid}]
  BY <1>1
<1>3. "delegator" \in DOMAIN PartiallyWitnessed /\ PartiallyWitnessed.delegator = Null
  BY DEF PartiallyWitnessed, Options
<1>4. call'.log = log /\ call'.about = Identifiers(messages)
  BY <1>2
<1> SUFFICES ASSUME Cardinality(Identifiers(messages)) > 1 PROVE Approves(log)
  BY <1>4 DEF Approval
<1>5. messages \in Seq(Messages)
  BY AnswerHoldsLog
<1>6. CASE \A m \in Elements(messages) : m.body.i = aid
  <2>1. Identifiers(messages) \subseteq {aid}
    BY <1>6 DEF Identifiers
  <2>2. Cardinality({}) = 0 /\ Cardinality({aid}) = 1
    BY FS_EmptySet, FS_Singleton
  <2>3. Identifiers(messages) = {} \/ Identifiers(messages) = {aid}
    BY <2>1
  <2>4. Cardinality(Identifiers(messages)) \in {0, 1}
    BY <2>2, <2>3
  <2> QED
    BY <2>4
<1>7. ASSUME NEW dip \in Elements(messages), dip.body.t = "dip", dip.body.i = aid,
             \A m \in Elements(messages) : m.body.i \in {aid, dip.body.di}
      PROVE Approves(log)
  BY <1>3, <1>5, <1>7, DelegateApproved
<1> QED
  BY <1>6, <1>7, AnswerHoldsLog

\* The call keeps the log it judged.
LEMMA NextApproval ==
    ASSUME NullIsNoLog, IInv, Approval, [Next]_vars
    PROVE Approval'
<1>1. CASE UNCHANGED call
  BY <1>1 DEF Approval
<1>2. ASSUME NEW aid \in Aids, Introduce(aid) PROVE Approval'
  BY <1>2, IntroduceApproved
<1>3. ASSUME call'.pc # "idle" => /\ call.pc = "running"
                                  /\ call'.log = call.log /\ call'.about = call.about
      PROVE Approval'
  BY <1>3 DEF Approval
<1>4. call.pc = "running" => DOMAIN call = {"pc", "log", "about", "events", "others"}
  BY DEF IInv, Typed
<1>5. CASE ProcessEvent
  <2>1. call.pc = "running" /\ (call' = NoCall \/ call' = [call EXCEPT !.events = Tail(@)])
    BY <1>5 DEF ProcessEvent
  <2>2. CASE call' = NoCall
    BY <1>3, <2>2 DEF NoCall
  <2>3. CASE call' = [call EXCEPT !.events = Tail(@)]
    BY <1>3, <1>4, <2>1, <2>3
  <2> QED
    BY <2>1, <2>2, <2>3
<1>6. ASSUME NEW rpy, ProcessReply(rpy) PROVE Approval'
  <2>1. call.pc = "running" /\ call' = [call EXCEPT !.others = @ \ {rpy}]
    BY <1>6 DEF ProcessReply
  <2> QED
    BY <1>3, <1>4, <2>1
<1>7. CASE Return
  BY <1>3, <1>7 DEF Return
<1> QED
  BY <1>1, <1>2, <1>5, <1>6, <1>7 DEF Next, vars, Enroll, Intake, Deliver, Forwarded

\* introduce and fromMessages: a delegate whose stream had its delegator's events was
\* approved, and the receiver has stored the event with the seal. null is not a log.
THEOREM Approved ==
    ASSUME NullIsNoLog
    PROVE Spec => []IntroducedIsApproved
<1>1. Init => Approval
  BY DEF Init, NoCall, Approval
<1>2. IInv /\ Approval /\ [Next]_vars => Approval'
  BY NextApproval
<1>3. IInv /\ Approval => IntroducedIsApproved
  <2> SUFFICES ASSUME IInv, Approval, call.pc = "returned", Cardinality(call.about) > 1
               PROVE LET dip == call.log.events[1].body IN
                     \E row \in Elements(rows[dip.di]) : \E seal \in row.body.a :
                         seal.i = dip.i /\ seal.s = dip.s /\ seal.d = dip.d
    BY DEF IntroducedIsApproved
  <2> DEFINE dip == call.log.events[1].body
  <2>1. /\ call.log.delegator # Null
        /\ \E m \in Elements(call.log.delegator.events) :
              m.body.i = dip.di /\ Anchors(m, EventRef(dip))
    BY DEF Approval, Approves
  <2>2. PICK m \in Elements(call.log.delegator.events) : m.body.i = dip.di /\ Anchors(m, EventRef(dip))
    BY <2>1
  <2>3. m \in Judged
    BY <2>1 DEF Judged
  <2>4. m \in Messages /\ Due(m.body.i, m.body.d)
    BY <2>3 DEF IInv, JudgedIsDue
  <2>5. Stores(rows[m.body.i], m.body.d) /\ m.body.i \in Aids
    BY <2>4 DEF Due, Remaining
  <2>6. PICK row \in Elements(rows[m.body.i]) : row.body.d = m.body.d
    BY <2>5 DEF Stores
  <2>7. row \in Messages
    <3>1. rows[m.body.i] \in Seq(Messages)
      BY <2>5 DEF IInv, Typed
    <3> QED
      BY <3>1, ElementOfSeq, LenProperties DEF Elements
  <2>8. row.body = m.body
    <3>1. PICK j \in Travelling : j.body = m.body
      BY <2>4 DEF Messages
    <3>2. PICK k \in Travelling : k.body = row.body
      BY <2>7 DEF Messages
    <3> QED
      BY <2>6, <3>1, <3>2, IntroductionAssumption
  <2>9. PICK seal \in row.body.a : seal.i = dip.i /\ seal.s = dip.s /\ seal.d = dip.d
    BY <2>2, <2>8 DEF Anchors, EventRef
  <2> QED
    BY <2>2, <2>6, <2>9
<1> QED
  BY <1>1, <1>2, <1>3, Invariant, PTL DEF Spec

-----------------------------------------------------------------------------
(* What the receiver stores replays. *)

CopiesOf(aid) == {m \in Travelling : m.body.i = aid}

\* Two logs that append cannot tell apart: it looks at the keys and the backers.
Like(l, k) ==
    /\ l.events \in Seq(Travelling) /\ k.events \in Seq(Travelling)
    /\ l.delegator = Null /\ k.delegator = Null
    /\ l.events = <<>> <=> k.events = <<>>
    /\ l.events # <<>> =>
          /\ DOMAIN l.state = KeyStateFields /\ DOMAIN k.state = KeyStateFields
          /\ l.state.signingKeys = k.state.signingKeys
          /\ l.state.signingThreshold = k.state.signingThreshold
          /\ l.state.nextKeyDigests = k.state.nextKeyDigests
          /\ l.state.backers = k.state.backers
          /\ l.state.backerThreshold = k.state.backerThreshold

\* The logs of the first events of a history.
Chain(log, chain) ==
    /\ chain[0] = EmptyLog
    /\ \A x \in 1 .. Len(log) :
          CanAppend(chain[x - 1], log[x], Strict) /\ chain[x] = Extend(chain[x - 1], log[x], Strict)

Logs(aid) == CHOOSE chain : Chain(History[aid], chain)

\* The position of an event in its history.
At(aid, m) == CHOOSE x \in DOMAIN History[aid] : m.body = History[aid][x].body

Establishes(aid, x) == IsEstablishment(History[aid][x].body.t)

\* A table is in order, has every establishment event before an event it has, and
\* each of its rows extends the history up to it.
Sane(aid, table) ==
    /\ table \in Seq(CopiesOf(aid))
    /\ \A x \in DOMAIN table : \A y \in 1 .. x - 1 : At(aid, table[y]) < At(aid, table[x])
    /\ \A row \in Elements(table) : \A y \in 1 .. At(aid, row) :
          Establishes(aid, y) => \E r \in Elements(table) : At(aid, r) = y
    /\ \A row \in Elements(table) : CanAppend(Logs(aid)[At(aid, row) - 1], row, Strict)

\* How far a table reaches in the history.
Reach(aid, table) == IF table = <<>> THEN 0 ELSE At(aid, table[Len(table)])

\* append takes the same events.
LEMMA LikeAccepts ==
    ASSUME NEW l, NEW k, Like(l, k), NEW m, CanAppend(l, m, Strict)
    PROVE CanAppend(k, m, Strict)
<1>1. DelegatorFor(l, Strict) = Null /\ DelegatorFor(k, Strict) = Null
  BY DEF DelegatorFor, Like, Strict, Options
<1>2. CASE CanIncept(l, m, Strict)
  <2>1. l.events = <<>> /\ k.events = <<>>
    BY <1>2 DEF CanIncept, HasState, Like
  <2>2. CanIncept(k, m, Strict)
    BY <1>1, <1>2, <2>1 DEF CanIncept, HasState
  <2> QED
    BY <2>2 DEF CanAppend
<1>3. CASE CanInteract(l, m, Strict)
  <2>1. CanInteract(k, m, Strict)
    BY <1>3 DEF CanInteract, HasState, Like
  <2> QED
    BY <2>1 DEF CanAppend
<1>4. CASE CanRotate(l, m, Strict)
  <2>1. l.events # <<>> /\ k.events # <<>>
    BY <1>4 DEF CanRotate, HasState, Like
  <2>2. CanRotate(k, m, Strict)
    BY <1>1, <1>4, <2>1 DEF CanRotate, HasState, Like, Committed
  <2> QED
    BY <2>2 DEF CanAppend
<1> QED
  BY <1>2, <1>3, <1>4 DEF CanAppend

\* The log append returns has a state, with these fields.
LEMMA Appended ==
    ASSUME NEW l, Like(l, l), NEW m \in Travelling, CanAppend(l, m, Strict)
    PROVE LET n == Extend(l, m, Strict) IN
          /\ n.events \in Seq(Travelling) /\ n.events # <<>> /\ n.delegator = Null
          /\ DOMAIN n.state = KeyStateFields
          /\ n.state.signingKeys = IF m.body.t = "ixn" THEN l.state.signingKeys ELSE m.body.k
          /\ n.state.signingThreshold = IF m.body.t = "ixn" THEN l.state.signingThreshold ELSE m.body.kt
          /\ n.state.nextKeyDigests = IF m.body.t = "ixn" THEN l.state.nextKeyDigests ELSE m.body.n
          /\ n.state.backers = IF m.body.t = "ixn" THEN l.state.backers
                               ELSE IF IsInception(m.body.t) THEN m.body.b
                               ELSE RotatedBackers(l.state.backers, m.body)
          /\ n.state.backerThreshold = IF m.body.t = "ixn" THEN l.state.backerThreshold ELSE m.body.bt
          /\ m.body.t # "ixn" <=> IsEstablishment(m.body.t)
          /\ m.body.t = "ixn" => l.events # <<>>
<1> DEFINE n == Extend(l, m, Strict)
<1>1. n.events = Append(l.events, m) /\ n.delegator = Null /\ n.state = ReduceKeyState(l.state, m.body)
  BY DEF Extend, DelegatorFor, Like, Strict, Options
<1>2. n.events \in Seq(Travelling) /\ n.events # <<>>
  <2>1. \A s \in Seq(Travelling) : Append(s, m) \in Seq(Travelling) /\ Append(s, m) # <<>>
    BY AppendProperties, LenProperties, EmptySeq
  <2> QED
    BY <1>1, <2>1 DEF Like
<1> HIDE DEF n
<1>3. CASE CanIncept(l, m, Strict)
  <2>1. /\ IsInception(m.body.t) /\ m.body.t # "ixn" /\ ~IsRotation(m.body.t)
        /\ IsEstablishment(m.body.t)
    BY <1>3 DEF CanIncept, IsInception, IsRotation, IsEstablishment
  <2>2. n.state = InceptionState(m.body)
    BY <1>1, <2>1 DEF ReduceKeyState
  <2> QED
    BY <1>1, <1>2, <2>1, <2>2 DEF InceptionState, KeyStateFields, n
<1>4. CASE CanInteract(l, m, Strict)
  <2>1. /\ m.body.t = "ixn" /\ ~IsInception(m.body.t) /\ ~IsRotation(m.body.t)
        /\ ~IsEstablishment(m.body.t) /\ l.events # <<>>
    BY <1>4 DEF CanInteract, IsInception, IsRotation, IsEstablishment, HasState
  <2>2. n.state = InteractionState(l.state, m.body) /\ DOMAIN l.state = KeyStateFields
    BY <1>1, <2>1 DEF ReduceKeyState, Like
  <2> QED
    BY <1>1, <1>2, <2>1, <2>2 DEF InteractionState, KeyStateFields, n
<1>5. CASE CanRotate(l, m, Strict)
  <2>1. /\ m.body.t # "ixn" /\ ~IsInception(m.body.t) /\ IsRotation(m.body.t)
        /\ IsEstablishment(m.body.t) /\ l.events # <<>>
    BY <1>5 DEF CanRotate, IsInception, IsRotation, IsEstablishment, HasState
  <2>2. n.state = RotationState(l.state, m.body) /\ DOMAIN l.state = KeyStateFields
    BY <1>1, <2>1 DEF ReduceKeyState, Like
  <2> QED
    BY <1>1, <1>2, <2>1, <2>2 DEF RotationState, KeyStateFields, n
<1> QED
  BY <1>3, <1>4, <1>5 DEF CanAppend

\* Being alike is an equivalence.
LEMMA LikeEquivalent ==
    /\ \A l, k : Like(l, k) => Like(k, l) /\ Like(l, l)
    /\ \A l, k, n : Like(l, k) /\ Like(k, n) => Like(l, n)
BY DEF Like

\* The same event makes like logs of like logs.
LEMMA LikeExtends ==
    ASSUME NEW l, NEW k, Like(l, k), NEW m \in Travelling, NEW n \in Travelling, m.body = n.body,
           CanAppend(l, m, Strict), CanAppend(k, n, Strict)
    PROVE Like(Extend(l, m, Strict), Extend(k, n, Strict))
<1>1. Like(l, l) /\ Like(k, k)
  BY LikeEquivalent
<1>2. PICK body : body = m.body /\ body = n.body
  OBVIOUS
<1>3. body.t = "ixn" => l.events # <<>>
  BY <1>1, <1>2, Appended
<1>4. PICK a : a = Extend(l, m, Strict)
  OBVIOUS
<1>5. PICK c : c = Extend(k, n, Strict)
  OBVIOUS
<1>6. /\ a.events \in Seq(Travelling) /\ a.events # <<>> /\ a.delegator = Null
      /\ DOMAIN a.state = KeyStateFields
      /\ a.state.signingKeys = IF body.t = "ixn" THEN l.state.signingKeys ELSE body.k
      /\ a.state.signingThreshold = IF body.t = "ixn" THEN l.state.signingThreshold ELSE body.kt
      /\ a.state.nextKeyDigests = IF body.t = "ixn" THEN l.state.nextKeyDigests ELSE body.n
      /\ a.state.backers = IF body.t = "ixn" THEN l.state.backers
                           ELSE IF IsInception(body.t) THEN body.b
                           ELSE RotatedBackers(l.state.backers, body)
      /\ a.state.backerThreshold = IF body.t = "ixn" THEN l.state.backerThreshold ELSE body.bt
  BY <1>1, <1>2, <1>4, Appended
<1>7. /\ c.events \in Seq(Travelling) /\ c.events # <<>> /\ c.delegator = Null
      /\ DOMAIN c.state = KeyStateFields
      /\ c.state.signingKeys = IF body.t = "ixn" THEN k.state.signingKeys ELSE body.k
      /\ c.state.signingThreshold = IF body.t = "ixn" THEN k.state.signingThreshold ELSE body.kt
      /\ c.state.nextKeyDigests = IF body.t = "ixn" THEN k.state.nextKeyDigests ELSE body.n
      /\ c.state.backers = IF body.t = "ixn" THEN k.state.backers
                           ELSE IF IsInception(body.t) THEN body.b
                           ELSE RotatedBackers(k.state.backers, body)
      /\ c.state.backerThreshold = IF body.t = "ixn" THEN k.state.backerThreshold ELSE body.bt
  BY <1>1, <1>2, <1>5, Appended
<1>8. ~(body.t = "ixn") /\ ~IsInception(body.t) => l.events # <<>>
  BY <1>2 DEF CanAppend, CanIncept, CanInteract, CanRotate, HasState
<1>9. l.events # <<>> =>
        /\ l.state.signingKeys = k.state.signingKeys
        /\ l.state.signingThreshold = k.state.signingThreshold
        /\ l.state.nextKeyDigests = k.state.nextKeyDigests
        /\ l.state.backers = k.state.backers
        /\ l.state.backerThreshold = k.state.backerThreshold
  BY DEF Like
<1>10. /\ a.state.signingKeys = c.state.signingKeys
       /\ a.state.signingThreshold = c.state.signingThreshold
       /\ a.state.nextKeyDigests = c.state.nextKeyDigests
       /\ a.state.backers = c.state.backers
       /\ a.state.backerThreshold = c.state.backerThreshold
  BY <1>3, <1>6, <1>7, <1>8, <1>9
<1> QED
  BY <1>4, <1>5, <1>6, <1>7, <1>10 DEF Like

\* An interaction changes nothing that append looks at.
LEMMA LikeInteracts ==
    ASSUME NEW l, NEW k, Like(l, k), NEW m \in Travelling, CanAppend(k, m, Strict),
           ~IsEstablishment(m.body.t)
    PROVE Like(l, Extend(k, m, Strict))
<1>1. Like(k, k)
  BY LikeEquivalent
<1>2. PICK c : c = Extend(k, m, Strict)
  OBVIOUS
<1>3. /\ c.events \in Seq(Travelling) /\ c.events # <<>> /\ c.delegator = Null
      /\ DOMAIN c.state = KeyStateFields
      /\ k.events # <<>>
      /\ c.state.signingKeys = k.state.signingKeys
      /\ c.state.signingThreshold = k.state.signingThreshold
      /\ c.state.nextKeyDigests = k.state.nextKeyDigests
      /\ c.state.backers = k.state.backers
      /\ c.state.backerThreshold = k.state.backerThreshold
  BY <1>1, <1>2, Appended
<1> QED
  BY <1>2, <1>3 DEF Like

\* A history is a sequence of copies of its own.
LEMMA HistorySequence ==
    ASSUME NEW aid \in Aids
    PROVE /\ History[aid] \in Seq(CopiesOf(aid))
          /\ Len(History[aid]) \in Nat /\ DOMAIN History[aid] = 1 .. Len(History[aid])
          /\ \A x \in 1 .. Len(History[aid]) : History[aid][x] \in CopiesOf(aid)
<1>1. History[aid] \in Seq(Elements(History[aid])) /\ \A m \in Elements(History[aid]) : m.body.i = aid
  BY IntroductionAssumption
<1>2. Elements(History[aid]) \subseteq CopiesOf(aid)
  BY <1>1 DEF CopiesOf, Travelling
<1>3. History[aid] \in Seq(CopiesOf(aid))
  BY <1>1, <1>2
<1> QED
  BY <1>3, LenProperties, ElementOfSeq

\* A history that loads is a chain of logs.
LEMMA HistoryChain ==
    ASSUME NEW aid \in Aids
    PROVE Chain(History[aid], Logs(aid))
<1>1. PICK log \in Seq(CopiesOf(aid)) :
        log = History[aid] /\ Len(log) \in Nat /\ DOMAIN log = 1 .. Len(log) /\ From(log, Strict) # {}
  BY HistorySequence, HistoryAssumption DEF Loads
<1>2. PICK after :
        /\ From(log, Strict) = after[Len(log)]
        /\ after[0] = {EmptyLog}
        /\ \A x \in 1 .. Len(log) : after[x] = NextLogs(after[x - 1], log[x], Strict)
  <2>1. Len(log) \in Nat
    BY <1>1
  <2> QED
    BY <2>1, FromRecursion
<1> DEFINE N == {n \in Nat : n <= Len(log) => after[Len(log) - n] # {}}
<1>3. 0 \in N
  BY <1>1, <1>2
<1>4. ASSUME NEW n \in Nat, n \in N PROVE n + 1 \in N
  <2> SUFFICES ASSUME n + 1 <= Len(log) PROVE after[Len(log) - (n + 1)] # {}
    OBVIOUS
  <2>1. after[Len(log) - n] # {} /\ Len(log) - n \in 1 .. Len(log) /\ (Len(log) - n) - 1 = Len(log) - (n + 1)
    BY <1>1, <1>4
  <2>2. after[Len(log) - n] = NextLogs(after[Len(log) - (n + 1)], log[Len(log) - n], Strict)
    BY <1>2, <2>1
  <2> QED
    BY <2>1, <2>2 DEF NextLogs
<1> HIDE DEF N
<1>5. \A x \in 0 .. Len(log) : after[x] # {}
  <2> SUFFICES ASSUME NEW x \in 0 .. Len(log) PROVE after[x] # {}
    OBVIOUS
  <2>1. Len(log) - x \in N
    BY <1>1, <1>3, <1>4, SetInduction
  <2>2. Len(log) - x <= Len(log) /\ Len(log) - (Len(log) - x) = x
    BY <1>1
  <2> QED
    BY <2>1, <2>2 DEF N
<1> DEFINE chain == [x \in 0 .. Len(log) |-> CHOOSE l : l \in after[x]]
           S == {n \in Nat : n <= Len(log) => after[n] = {chain[n]}}
<1>6. \A x \in 0 .. Len(log) : chain[x] \in after[x]
  BY <1>5
<1>7. 0 \in S
  <2>1. 0 \in 0 .. Len(log) /\ 0 \in Nat
    BY <1>1
  <2>2. chain[0] \in after[0]
    BY <1>6, <2>1
  <2>3. chain[0] = EmptyLog
    BY <1>2, <2>2
  <2> HIDE DEF chain
  <2>4. after[0] = {chain[0]}
    BY <1>2, <2>3
  <2> QED
    BY <2>1, <2>4
<1> HIDE DEF chain
<1>8. ASSUME NEW n \in Nat, n \in S PROVE n + 1 \in S
  <2> SUFFICES ASSUME n + 1 <= Len(log) PROVE after[n + 1] = {chain[n + 1]}
    OBVIOUS
  <2>1. after[n] = {chain[n]} /\ n + 1 \in 1 .. Len(log) /\ (n + 1) - 1 = n /\ n + 1 \in 0 .. Len(log)
    BY <1>1, <1>8
  <2>2. after[n + 1] = NextLogs({chain[n]}, log[n + 1], Strict)
    BY <1>2, <2>1
  <2>3. chain[n + 1] \in after[n + 1]
    BY <1>6, <2>1
  <2> QED
    BY <2>2, <2>3 DEF NextLogs
<1> HIDE DEF S
<1>9. ASSUME NEW x \in 0 .. Len(log) PROVE after[x] = {chain[x]}
  <2>1. x \in S /\ x <= Len(log)
    BY <1>1, <1>7, <1>8, SetInduction
  <2> QED
    BY <2>1 DEF S
<1>10. chain[0] = EmptyLog
  <2>1. after[0] = {chain[0]}
    BY <1>1, <1>9
  <2> QED
    BY <1>2, <2>1
<1>11. ASSUME NEW x \in 1 .. Len(log)
       PROVE CanAppend(chain[x - 1], log[x], Strict) /\ chain[x] = Extend(chain[x - 1], log[x], Strict)
  <2>1. x \in 0 .. Len(log) /\ x - 1 \in 0 .. Len(log)
    BY <1>1
  <2>2. after[x] = {chain[x]} /\ after[x - 1] = {chain[x - 1]}
    BY <1>9, <2>1
  <2>3. {chain[x]} = NextLogs({chain[x - 1]}, log[x], Strict)
    BY <1>2, <2>2
  <2> QED
    BY <2>3 DEF NextLogs
<1>12. Chain(History[aid], chain)
  BY <1>1, <1>10, <1>11 DEF Chain
<1> QED
  BY <1>12 DEF Logs

\* A log of the history is like itself, and interactions leave it like the one before.
LEMMA LogsAlike ==
    ASSUME NEW aid \in Aids, NEW y \in 0 .. Len(History[aid])
    PROVE /\ Like(Logs(aid)[y], Logs(aid)[y])
          /\ \A x \in y .. Len(History[aid]) :
                (\A z \in y + 1 .. x : ~Establishes(aid, z)) => Like(Logs(aid)[y], Logs(aid)[x])
<1>1. PICK log \in Seq(CopiesOf(aid)) : log = History[aid] /\ Len(log) \in Nat
  BY HistorySequence
<1>2. PICK chain : chain = Logs(aid) /\ Chain(log, chain)
  BY <1>1, HistoryChain
<1>3. \A x \in 1 .. Len(log) : log[x] \in Travelling
  BY <1>1, HistorySequence DEF CopiesOf
<1> DEFINE S == {n \in Nat : n <= Len(log) => Like(chain[n], chain[n])}
<1>4. 0 \in S
  <2>1. EmptyLog.events = <<>> /\ EmptyLog.delegator = Null /\ <<>> \in Seq(Travelling)
    BY DEF EmptyLog
  <2> QED
    BY <1>2, <2>1 DEF Chain, Like
<1>5. ASSUME NEW n \in Nat, n \in S PROVE n + 1 \in S
  <2> SUFFICES ASSUME n + 1 <= Len(log) PROVE Like(chain[n + 1], chain[n + 1])
    OBVIOUS
  <2>1. n + 1 \in 1 .. Len(log) /\ (n + 1) - 1 = n /\ Like(chain[n], chain[n])
    BY <1>1, <1>5
  <2>2. CanAppend(chain[n], log[n + 1], Strict) /\ chain[n + 1] = Extend(chain[n], log[n + 1], Strict)
    BY <1>2, <2>1 DEF Chain
  <2> QED
    BY <1>3, <2>1, <2>2, LikeExtends
<1> HIDE DEF S
<1>6. Like(chain[y], chain[y])
  <2>1. y \in S /\ y <= Len(log)
    BY <1>1, <1>4, <1>5, SetInduction
  <2> QED
    BY <2>1 DEF S
<1> DEFINE Quiet(n) == \A z \in y + 1 .. y + n : ~Establishes(aid, z)
           N == {n \in Nat : y + n <= Len(log) /\ Quiet(n) => Like(chain[y], chain[y + n])}
<1>7. 0 \in N
  BY <1>1, <1>6
<1>8. ASSUME NEW n \in Nat, n \in N PROVE n + 1 \in N
  <2> SUFFICES ASSUME y + (n + 1) <= Len(log), Quiet(n + 1) PROVE Like(chain[y], chain[y + (n + 1)])
    OBVIOUS
  <2>1. /\ y + (n + 1) \in 1 .. Len(log) /\ (y + (n + 1)) - 1 = y + n /\ y + n <= Len(log)
        /\ y + (n + 1) \in y + 1 .. y + (n + 1)
    BY <1>1
  <2>2. Quiet(n)
    BY <1>1
  <2>3. Like(chain[y], chain[y + n])
    BY <1>8, <2>1, <2>2
  <2>4. ~IsEstablishment(log[y + (n + 1)].body.t)
    BY <1>1, <2>1 DEF Establishes
  <2>5. /\ CanAppend(chain[y + n], log[y + (n + 1)], Strict)
        /\ chain[y + (n + 1)] = Extend(chain[y + n], log[y + (n + 1)], Strict)
    BY <1>2, <2>1 DEF Chain
  <2> QED
    BY <1>3, <2>1, <2>3, <2>4, <2>5, LikeInteracts
<1> HIDE DEF N
<1>9. ASSUME NEW x \in y .. Len(log), \A z \in y + 1 .. x : ~Establishes(aid, z)
      PROVE Like(chain[y], chain[x])
  <2>1. x - y \in N /\ y + (x - y) = x /\ x <= Len(log)
    BY <1>1, <1>7, <1>8, SetInduction
  <2> QED
    BY <1>9, <2>1 DEF N
<1> QED
  BY <1>1, <1>2, <1>6, <1>9

\* An event has one position in its history, the one its sequence number gives it.
LEMMA Placed ==
    ASSUME NEW aid \in Aids, NEW m \in CopiesOf(aid)
    PROVE /\ At(aid, m) \in 1 .. Len(History[aid])
          /\ m.body = History[aid][At(aid, m)].body
          /\ m.body.s \in Nat
          /\ \A x \in 1 .. Len(History[aid]) : m.body = History[aid][x].body => x = At(aid, m)
<1>1. /\ DOMAIN History[aid] = 1 .. Len(History[aid]) /\ Len(History[aid]) \in Nat
      /\ \A x \in DOMAIN History[aid] : History[aid][x].body.s \in Nat
      /\ \A x \in DOMAIN History[aid] : \A y \in 1 .. x - 1 : History[aid][y].body.s < History[aid][x].body.s
  BY HistorySequence, HistoryAssumption
<1>2. \E x \in DOMAIN History[aid] : m.body = History[aid][x].body
  BY HistoryAssumption DEF CopiesOf
<1>3. At(aid, m) \in DOMAIN History[aid] /\ m.body = History[aid][At(aid, m)].body
  BY <1>2 DEF At
<1>4. ASSUME NEW x \in 1 .. Len(History[aid]), NEW y \in 1 .. Len(History[aid]), x # y,
             History[aid][x].body = History[aid][y].body
      PROVE FALSE
  <2>1. x \in 1 .. y - 1 \/ y \in 1 .. x - 1
    BY <1>1, <1>4
  <2>2. History[aid][x].body.s < History[aid][y].body.s \/ History[aid][y].body.s < History[aid][x].body.s
    BY <1>1, <2>1
  <2>3. PICK s \in Nat : s = History[aid][x].body.s /\ s = History[aid][y].body.s
    BY <1>1, <1>4
  <2> QED
    BY <2>2, <2>3
<1> QED
  BY <1>1, <1>3, <1>4

\* Positions, sequence numbers and digests say the same.
LEMMA SameOrder ==
    ASSUME NEW aid \in Aids, NEW m \in CopiesOf(aid), NEW k \in CopiesOf(aid)
    PROVE /\ m.body.s <= k.body.s <=> At(aid, m) <= At(aid, k)
          /\ m.body.d = k.body.d <=> At(aid, m) = At(aid, k)
          /\ m.body = k.body <=> At(aid, m) = At(aid, k)
<1>1. PICK x \in 1 .. Len(History[aid]) : x = At(aid, m) /\ m.body = History[aid][x].body
  BY Placed
<1>2. PICK y \in 1 .. Len(History[aid]) : y = At(aid, k) /\ k.body = History[aid][y].body
  BY Placed
<1>3. Len(History[aid]) \in Nat /\ DOMAIN History[aid] = 1 .. Len(History[aid])
  BY HistorySequence
<1>4. PICK s \in Nat : s = m.body.s
  BY Placed
<1>5. PICK t \in Nat : t = k.body.s
  BY Placed
<1>6. (x < y => s < t) /\ (y < x => t < s) /\ (x = y => s = t)
  <2>1. \A a \in 1 .. Len(History[aid]) : \A b \in 1 .. a - 1 : History[aid][b].body.s < History[aid][a].body.s
    BY <1>3, HistoryAssumption
  <2>2. x < y => x \in 1 .. y - 1
    BY <1>3
  <2>3. y < x => y \in 1 .. x - 1
    BY <1>3
  <2> QED
    BY <1>1, <1>2, <1>4, <1>5, <2>1, <2>2, <2>3
<1>7. m.body.s <= k.body.s <=> At(aid, m) <= At(aid, k)
  BY <1>1, <1>2, <1>3, <1>4, <1>5, <1>6
<1>8. m.body = k.body <=> At(aid, m) = At(aid, k)
  BY <1>1, <1>2, Placed
<1>9. m.body.d = k.body.d => m.body = k.body
  BY IntroductionAssumption DEF CopiesOf
<1> QED
  BY <1>7, <1>8, <1>9

\* Such a table replays strictly, and reaches the state of the history as far as it goes.
LEMMA SaneReplays ==
    ASSUME NEW aid \in Aids, NEW table, Sane(aid, table)
    PROVE \E k : From(table, Strict) = {k} /\ Like(k, Logs(aid)[Reach(aid, table)])
<1>1. PICK h \in Seq(CopiesOf(aid)) : h = History[aid] /\ Len(h) \in Nat /\ DOMAIN h = 1 .. Len(h)
  BY HistorySequence
<1>2. /\ table \in Seq(CopiesOf(aid)) /\ Len(table) \in Nat /\ DOMAIN table = 1 .. Len(table)
      /\ \A x \in 1 .. Len(table) : table[x] \in CopiesOf(aid)
  BY LenProperties, ElementOfSeq DEF Sane
<1>3. PICK after :
        /\ From(table, Strict) = after[Len(table)]
        /\ after[0] = {EmptyLog}
        /\ \A x \in 1 .. Len(table) : after[x] = NextLogs(after[x - 1], table[x], Strict)
  <2>1. Len(table) \in Nat
    BY <1>2
  <2> QED
    BY <2>1, FromRecursion
<1>4. PICK chain : chain = Logs(aid) /\ Chain(h, chain)
  BY <1>1, HistoryChain
<1> DEFINE far(n) == IF n = 0 THEN 0 ELSE At(aid, table[n])
           S == {n \in Nat : n <= Len(table) => \E k : after[n] = {k} /\ Like(k, chain[far(n)])}
<1>5. 0 \in S
  <2>1. 0 \in 0 .. Len(History[aid]) /\ far(0) = 0
    BY <1>1
  <2>2. Like(chain[0], chain[0])
    BY <1>4, <2>1, LogsAlike
  <2> QED
    BY <1>3, <1>4, <2>1, <2>2 DEF Chain
<1>6. ASSUME NEW n \in Nat, n \in S PROVE n + 1 \in S
  <2> SUFFICES ASSUME n + 1 <= Len(table)
               PROVE \E k : after[n + 1] = {k} /\ Like(k, chain[far(n + 1)])
    OBVIOUS
  <2>1. n <= Len(table) /\ n + 1 \in 1 .. Len(table) /\ n + 1 # 0 /\ (n + 1) - 1 = n
    BY <1>2
  <2>2. PICK k : after[n] = {k} /\ Like(k, chain[far(n)])
    BY <1>6, <2>1
  <2>3. PICK row \in CopiesOf(aid) : row = table[n + 1] /\ row \in Elements(table)
    BY <1>2, <2>1 DEF Elements
  <2>4. PICK v \in 1 .. Len(h) : v = At(aid, row) /\ v = far(n + 1) /\ row.body = h[v].body
    BY <1>1, <2>1, <2>3, Placed
  <2>5. PICK a : a = far(n)
    OBVIOUS
  <2>6. a \in 0 .. v - 1
    <3>1. CASE n = 0
      BY <1>1, <2>5, <3>1
    <3>2. CASE n # 0
      <4>1. n \in 1 .. Len(table) /\ n \in 1 .. (n + 1) - 1
        BY <1>2, <2>1, <3>2
      <4>2. a = At(aid, table[n]) /\ a \in 1 .. Len(h)
        BY <1>1, <1>2, <2>5, <3>2, <4>1, Placed
      <4>3. At(aid, table[n]) < At(aid, table[n + 1])
        BY <1>2, <2>1, <4>1 DEF Sane
      <4> QED
        BY <1>1, <2>3, <2>4, <4>2, <4>3
    <3> QED
      BY <3>1, <3>2
  <2>7. ASSUME NEW z \in a + 1 .. v - 1, Establishes(aid, z) PROVE FALSE
    <3>1. z \in 1 .. v /\ z # v /\ a < z /\ z < v
      BY <1>1, <2>6
    <3>2. PICK r \in Elements(table) : At(aid, r) = z
      BY <2>3, <2>4, <2>7, <3>1 DEF Sane
    <3>3. PICK w \in 1 .. Len(table) : r = table[w]
      BY <1>2, <3>2 DEF Elements
    <3>4. CASE w = n + 1
      BY <2>3, <2>4, <3>1, <3>2, <3>3, <3>4
    <3>5. CASE w = n
      BY <1>2, <2>1, <2>5, <3>1, <3>2, <3>3, <3>5
    <3>6. CASE n + 1 < w
      <4>1. n + 1 \in 1 .. w - 1 /\ w \in DOMAIN table
        BY <1>2, <2>1, <3>6
      <4>2. At(aid, table[n + 1]) < At(aid, table[w])
        BY <4>1 DEF Sane
      <4> QED
        BY <1>1, <2>3, <2>4, <3>1, <3>2, <3>3, <4>2
    <3>7. CASE w < n
      <4>1. w \in 1 .. n - 1 /\ n \in DOMAIN table /\ n # 0
        BY <1>2, <2>1, <3>7
      <4>2. At(aid, table[w]) < At(aid, table[n])
        BY <4>1 DEF Sane
      <4> QED
        BY <1>1, <2>5, <2>6, <3>1, <3>2, <3>3, <4>1, <4>2
    <3> QED
      BY <1>2, <3>4, <3>5, <3>6, <3>7
  <2>8. Like(chain[a], chain[v - 1])
    <3>1. a \in 0 .. Len(History[aid]) /\ v - 1 \in a .. Len(History[aid])
      BY <1>1, <2>6
    <3> QED
      BY <1>4, <2>7, <3>1, LogsAlike
  <2>9. Like(k, chain[v - 1]) /\ Like(chain[v - 1], k)
    BY <2>2, <2>5, <2>8, LikeEquivalent
  <2>10. CanAppend(chain[v - 1], row, Strict)
    BY <1>4, <2>3, <2>4 DEF Sane
  <2>11. CanAppend(k, row, Strict)
    BY <2>9, <2>10, LikeAccepts
  <2>12. after[n + 1] = {Extend(k, row, Strict)}
    <3>1. after[n + 1] = NextLogs({k}, row, Strict)
      BY <1>3, <2>1, <2>2, <2>3
    <3> QED
      BY <2>11, <3>1 DEF NextLogs
  <2>13. CanAppend(chain[v - 1], h[v], Strict) /\ chain[v] = Extend(chain[v - 1], h[v], Strict)
    BY <1>4 DEF Chain
  <2>14. row \in Travelling /\ h[v] \in Travelling
    BY <1>1, HistorySequence DEF CopiesOf
  <2>15. Like(Extend(k, row, Strict), chain[v])
    BY <2>4, <2>9, <2>11, <2>13, <2>14, LikeExtends
  <2> QED
    BY <2>4, <2>12, <2>15
<1> HIDE DEF S
<1>7. PICK k : after[Len(table)] = {k} /\ Like(k, chain[far(Len(table))])
  <2>1. Len(table) \in S /\ Len(table) <= Len(table)
    BY <1>2, <1>5, <1>6, SetInduction
  <2> QED
    BY <2>1 DEF S
<1>8. far(Len(table)) = Reach(aid, table)
  BY <1>2, EmptySeq DEF Reach
<1> QED
  BY <1>3, <1>4, <1>7, <1>8

\* The keys in force are those of the last establishment event.
LEMMA LastEstablishment ==
    ASSUME NEW aid \in Aids, NEW x \in 1 .. Len(History[aid])
    PROVE \E q \in 1 .. x :
              /\ Establishes(aid, q)
              /\ \A z \in q + 1 .. x : ~Establishes(aid, z)
              /\ Logs(aid)[x].state.signingKeys = History[aid][q].body.k
              /\ Logs(aid)[x].state.signingThreshold = History[aid][q].body.kt
              /\ Logs(aid)[x].state.nextKeyDigests = History[aid][q].body.n
              /\ Logs(aid)[x].events # <<>>
<1>1. PICK h \in Seq(CopiesOf(aid)) :
        /\ h = History[aid] /\ Len(h) \in Nat
        /\ \A y \in 1 .. Len(h) : h[y] \in Travelling
  BY HistorySequence DEF CopiesOf
<1>2. PICK chain : chain = Logs(aid) /\ Chain(h, chain)
  BY <1>1, HistoryChain
<1>3. Establishes(aid, 1)
  <2>1. 1 \in 1 .. Len(h) /\ 1 - 1 = 0
    BY <1>1
  <2>2. CanAppend(EmptyLog, h[1], Strict)
    BY <1>2, <2>1 DEF Chain
  <2>3. IsInception(h[1].body.t)
    BY <2>2 DEF CanAppend, CanIncept, CanInteract, CanRotate, HasState, EmptyLog
  <2> QED
    BY <1>1, <2>3 DEF Establishes, IsEstablishment
<1> DEFINE I == {n \in Nat : n < x /\ Establishes(aid, x - n)}
<1>4. x - 1 \in I
  <2>1. x - 1 \in Nat /\ x - 1 < x /\ x - (x - 1) = 1
    BY <1>1
  <2> QED
    BY <1>3, <2>1
<1>5. PICK n \in I : \A j \in I : n <= j
  <2> HIDE DEF I
  <2>1. I \in SUBSET Nat /\ I # {}
    BY <1>4 DEF I
  <2> QED
    BY <2>1, NatMin
<1>6. PICK q \in 1 .. x : q = x - n
  BY <1>1
<1>7. Establishes(aid, q)
  BY <1>5, <1>6
<1>8. ASSUME NEW z \in q + 1 .. x, Establishes(aid, z) PROVE FALSE
  <2>1. x - z \in Nat /\ x - z < x /\ x - (x - z) = z /\ x - z < n
    BY <1>1, <1>6
  <2>2. x - z \in I
    BY <1>8, <2>1
  <2>3. n <= x - z
    BY <1>5, <2>2
  <2> HIDE DEF I
  <2>4. n \in Nat
    BY <1>5 DEF I
  <2> QED
    BY <2>1, <2>3, <2>4
<1>9. Like(chain[q], chain[x])
  <2>1. q \in 0 .. Len(History[aid]) /\ x \in q .. Len(History[aid])
    BY <1>1
  <2> QED
    BY <1>2, <1>8, <2>1, LogsAlike
<1>10. /\ chain[q].events # <<>>
       /\ chain[q].state.signingKeys = h[q].body.k /\ chain[q].state.signingThreshold = h[q].body.kt
       /\ chain[q].state.nextKeyDigests = h[q].body.n
  <2>1. q \in 1 .. Len(h) /\ q - 1 \in 0 .. Len(History[aid])
    BY <1>1
  <2>2. CanAppend(chain[q - 1], h[q], Strict) /\ chain[q] = Extend(chain[q - 1], h[q], Strict)
    BY <1>2, <2>1 DEF Chain
  <2>3. Like(chain[q - 1], chain[q - 1])
    BY <1>2, <2>1, LogsAlike
  <2>4. h[q].body.t # "ixn"
    BY <1>1, <1>7 DEF Establishes, IsEstablishment, IsInception, IsRotation
  <2> QED
    BY <1>1, <2>1, <2>2, <2>3, <2>4, Appended
<1> QED
  BY <1>1, <1>2, <1>7, <1>8, <1>9, <1>10 DEF Like

\* What the stored log takes was written after the establishment event the log ends
\* with, and before the next one: nothing that matters is missing before it.
LEMMA Accepted ==
    ASSUME NEW aid \in Aids, NEW table, Sane(aid, table), NEW m \in CopiesOf(aid),
           NEW k, k \in From(table, Strict), CanAppend(k, m, Strict)
    PROVE /\ CanAppend(Logs(aid)[At(aid, m) - 1], m, Strict)
          /\ \A y \in 1 .. At(aid, m) - 1 :
                Establishes(aid, y) => \E r \in Elements(table) : At(aid, r) = y
<1>1. PICK h \in Seq(CopiesOf(aid)) :
        /\ h = History[aid] /\ Len(h) \in Nat /\ DOMAIN h = 1 .. Len(h)
  BY HistorySequence
<1>2. PICK chain : chain = Logs(aid) /\ Chain(h, chain)
  BY <1>1, HistoryChain
<1>3. PICK v \in 1 .. Len(h) : v = At(aid, m) /\ m.body = h[v].body
  BY <1>1, Placed
<1>4. CanAppend(chain[v - 1], h[v], Strict)
  BY <1>2 DEF Chain
<1>5. PICK u : u = Reach(aid, table)
  OBVIOUS
<1>6. Like(k, chain[u])
  BY <1>2, <1>5, SaneReplays
<1>7. CASE IsInception(m.body.t)
  <2>1. ~IsRotation(m.body.t) /\ m.body.t # "ixn"
    BY <1>7 DEF IsInception, IsRotation
  <2>2. k.events = <<>>
    BY <2>1 DEF CanAppend, CanIncept, CanInteract, CanRotate, HasState
  <2>3. chain[v - 1].events = <<>>
    BY <1>3, <1>4, <2>1 DEF CanAppend, CanIncept, CanInteract, CanRotate, HasState
  <2>4. v = 1
    <3> SUFFICES ASSUME v # 1 PROVE FALSE
      OBVIOUS
    <3>1. v - 1 \in 1 .. Len(History[aid])
      BY <1>1
    <3>2. chain[v - 1].events # <<>>
      BY <1>2, <3>1, LastEstablishment
    <3> QED
      BY <2>3, <3>2
  <2>5. chain[v - 1] = EmptyLog /\ v - 1 = 0
    BY <1>2, <2>4 DEF Chain
  <2>6. Like(k, chain[v - 1])
    <3>1. Like(EmptyLog, EmptyLog)
      <4>1. 0 \in 0 .. Len(History[aid])
        BY <1>1
      <4> QED
        BY <1>2, <2>5, <4>1, LogsAlike
    <3> QED
      BY <1>6, <2>2, <2>5, <3>1 DEF Like, EmptyLog
  <2> QED
    BY <1>2, <1>3, <2>5, <2>6, LikeAccepts
<1>8. CASE ~IsInception(m.body.t)
  <2>1. k.events # <<>>
    BY <1>8 DEF CanAppend, CanIncept, CanInteract, CanRotate, HasState
  <2>2. chain[u].events # <<>>
    BY <1>6, <2>1 DEF Like
  <2>3. u # 0
    <3>1. chain[0].events = <<>>
      BY <1>2 DEF Chain, EmptyLog
    <3> QED
      BY <2>2, <3>1
  <2>4. PICK last \in Elements(table) : u = At(aid, last) /\ last \in CopiesOf(aid)
    <3>1. table # <<>> /\ u = At(aid, table[Len(table)])
      BY <1>5, <2>3 DEF Reach
    <3>2. table \in Seq(CopiesOf(aid))
      BY DEF Sane
    <3>3. Len(table) \in DOMAIN table /\ table[Len(table)] \in CopiesOf(aid)
      BY <3>1, <3>2, LenProperties, EmptySeq, ElementOfSeq
    <3> QED
      BY <3>1, <3>3 DEF Elements
  <2>5. u \in 1 .. Len(h)
    BY <1>1, <2>4, Placed
  <2>6. PICK q \in 1 .. u :
          /\ Establishes(aid, q)
          /\ \A z \in q + 1 .. u : ~Establishes(aid, z)
          /\ chain[u].state.signingKeys = h[q].body.k
          /\ chain[u].state.signingThreshold = h[q].body.kt
          /\ chain[u].state.nextKeyDigests = h[q].body.n
    BY <1>1, <1>2, <2>5, LastEstablishment
  <2>7. /\ k.state.signingKeys = h[q].body.k /\ k.state.signingThreshold = h[q].body.kt
        /\ k.state.nextKeyDigests = h[q].body.n
    BY <1>6, <2>1, <2>6 DEF Like
  <2>8. q \in 1 .. Len(h) /\ q \in DOMAIN h
    BY <1>1, <2>5
  <2>9. InForce(h, q, v)
    <3>1. CASE m.body.t = "ixn"
      <4>1. VerifyThreshold(k.state.signingKeys, k.state.signingThreshold, m.sigs)
        BY <1>8, <3>1
           DEF CanAppend, CanIncept, CanInteract, CanRotate, IsRotation, VerifySigning, Strict, Options
      <4>2. h[q].body.k \in Seq(Elements(h[q].body.k))
        BY <1>1, <2>6, <2>8, HistoryAssumption DEF Establishes
      <4>3. IsThreshold(k.state.signingThreshold)
        BY <1>1, <2>6, <2>7, <2>8, HistoryAssumption DEF Establishes
      <4>4. \E z \in DOMAIN m.sigs : z \in DOMAIN h[q].body.k /\ m.sigs[z] = h[q].body.k[z]
        BY <2>7, <4>1, <4>2, <4>3, SignatureNeeded
      <4>5. SignedWith(m, h[q].body.k) /\ m \in Travelling /\ v \in DOMAIN h
        BY <1>1, <4>4 DEF SignedWith, CopiesOf
      <4> QED
        BY <1>1, <1>3, <2>6, <2>8, <3>1, <4>5, HistoryAssumption DEF Establishes
    <3>2. CASE m.body.t # "ixn"
      <4>1. CanRotate(k, m, Strict)
        BY <1>8, <3>2 DEF CanAppend, CanIncept, CanInteract
      <4>2. /\ IsRotation(m.body.t)
            /\ VerifyThreshold(m.body.k, m.body.kt, m.sigs)
            /\ \A x \in DOMAIN m.body.k : NextKeyDigest(m.body.k[x]) \in Elements(h[q].body.n)
        BY <2>7, <4>1 DEF CanRotate, VerifySigning, Strict, Options, Committed
      <4>3. v \in DOMAIN h /\ IsEstablishment(h[v].body.t)
        BY <1>1, <1>3, <4>2 DEF IsEstablishment
      <4>4. m.body.k \in Seq(Elements(m.body.k)) /\ IsThreshold(m.body.kt)
        BY <1>1, <1>3, <4>3, HistoryAssumption
      <4>5. \E z \in DOMAIN m.sigs : z \in DOMAIN m.body.k /\ m.sigs[z] = m.body.k[z]
        BY <4>2, <4>4, SignatureNeeded
      <4>6. CommitsTo(h[q].body, h[v].body.k)
        BY <1>3, <4>2, <4>5 DEF CommitsTo
      <4> QED
        BY <1>1, <1>3, <2>6, <2>8, <4>2, <4>3, <4>6, HistoryAssumption DEF Establishes
    <3> QED
      BY <3>1, <3>2
  <2>10. q \in 1 .. v - 1 /\ \A z \in q + 1 .. v - 1 : ~Establishes(aid, z)
    BY <1>1, <2>9 DEF InForce, Establishes
  <2>11. Like(chain[q], chain[v - 1]) /\ Like(chain[q], chain[u])
    <3>1. /\ q \in 0 .. Len(History[aid])
          /\ v - 1 \in q .. Len(History[aid]) /\ u \in q .. Len(History[aid])
      BY <1>1, <2>5, <2>10
    <3> QED
      BY <1>2, <2>6, <2>10, <3>1, LogsAlike
  <2>12. CanAppend(chain[v - 1], m, Strict)
    BY <1>6, <2>11, LikeEquivalent, LikeAccepts
  <2>13. ASSUME NEW y \in 1 .. v - 1, Establishes(aid, y) PROVE \E r \in Elements(table) : At(aid, r) = y
    <3>1. y <= q
      BY <1>1, <2>10, <2>13
    <3>2. y \in 1 .. At(aid, last)
      BY <1>1, <2>4, <2>5, <3>1
    <3> QED
      BY <2>4, <2>13, <3>2 DEF Sane
  <2> QED
    BY <1>2, <1>3, <2>12, <2>13
<1> QED
  BY <1>7, <1>8

\* A set of positions with all before each of them are the first positions.
LEMMA FirstPositions ==
    ASSUME NEW n \in Nat, NEW I \in SUBSET (1 .. n), \A x \in I : \A y \in 1 .. x : y \in I
    PROVE I = 1 .. Cardinality(I) /\ Cardinality(I) \in 0 .. n
<1> DEFINE J == {x \in Nat : x + 1 \notin I}
<1>1. J \in SUBSET Nat /\ n \in J
  OBVIOUS
<1>2. PICK j \in J : \A x \in J : j <= x
  <2> HIDE DEF J
  <2> QED
    BY <1>1, NatMin
<1>3. j \in Nat /\ j + 1 \notin I
  BY <1>2
<1>4. ASSUME NEW x \in 1 .. j PROVE x \in I
  <2>1. x - 1 \in Nat /\ ~(j <= x - 1) /\ (x - 1) + 1 = x
    BY <1>3
  <2>2. x - 1 \notin J
    BY <1>2, <2>1
  <2> QED
    BY <2>1, <2>2
<1>5. ASSUME NEW x \in I PROVE x \in 1 .. j
  <2>1. x \in Nat /\ 1 <= x
    OBVIOUS
  <2>2. ~(j + 1 \in 1 .. x)
    BY <1>3
  <2> QED
    BY <1>3, <2>1, <2>2
<1>6. I = 1 .. j
  BY <1>4, <1>5
<1>7. Cardinality(I) = j
  BY <1>3, <1>6, FS_Interval
<1> QED
  BY <1>6, <1>7, Counted

\* A new event goes between the events before it and those after it.
LEMMA InsertedInOrder ==
    ASSUME NEW aid \in Aids, NEW table, Sane(aid, table), NEW m \in CopiesOf(aid),
           ~Stores(table, m.body.d)
    PROVE LET new == SaveMessage(table, m) IN
          \A x \in DOMAIN new : \A y \in 1 .. x - 1 : At(aid, new[y]) < At(aid, new[x])
<1>1. /\ table \in Seq(CopiesOf(aid)) /\ Len(table) \in Nat /\ DOMAIN table = 1 .. Len(table)
      /\ \A x \in 1 .. Len(table) : table[x] \in CopiesOf(aid)
  BY LenProperties, ElementOfSeq DEF Sane
<1>2. PICK v \in Nat : v = At(aid, m)
  BY Placed
<1>3. PICK at \in [1 .. Len(table) -> Nat] : \A x \in 1 .. Len(table) : at[x] = At(aid, table[x])
  <2>1. \A x \in 1 .. Len(table) : At(aid, table[x]) \in Nat
    BY <1>1, Placed
  <2>2. [x \in 1 .. Len(table) |-> At(aid, table[x])] \in [1 .. Len(table) -> Nat]
    BY <2>1
  <2> QED
    BY <2>2
<1>4. \A x \in 1 .. Len(table) : at[x] # v
  <2> SUFFICES ASSUME NEW x \in 1 .. Len(table), at[x] = v PROVE FALSE
    OBVIOUS
  <2>1. table[x].body.d = m.body.d
    BY <1>1, <1>2, <1>3, SameOrder
  <2>2. table[x] \in Elements(table)
    BY <1>1 DEF Elements
  <2> QED
    BY <2>1, <2>2 DEF Stores
<1>5. \A x \in 1 .. Len(table) : \A y \in 1 .. x - 1 : at[y] < at[x]
  <2> SUFFICES ASSUME NEW x \in 1 .. Len(table), NEW y \in 1 .. x - 1 PROVE at[y] < at[x]
    OBVIOUS
  <2>1. y \in 1 .. Len(table)
    BY <1>1
  <2>2. At(aid, table[y]) < At(aid, table[x])
    BY <1>1 DEF Sane
  <2> QED
    BY <1>3, <2>1, <2>2
<1> DEFINE I == {x \in DOMAIN table : table[x].body.s <= m.body.s}
           k == Cardinality(I)
<1>6. I = {x \in 1 .. Len(table) : at[x] <= v}
  BY <1>1, <1>2, <1>3, SameOrder
<1> HIDE DEF I
<1>7. I = 1 .. k /\ k \in 0 .. Len(table)
  <2>1. \A x \in I : \A y \in 1 .. x : y \in I
    <3> SUFFICES ASSUME NEW x \in I, NEW y \in 1 .. x PROVE y \in I
      OBVIOUS
    <3>1. x \in 1 .. Len(table) /\ at[x] <= v /\ y \in 1 .. Len(table)
      BY <1>1, <1>6
    <3>2. y = x \/ y \in 1 .. x - 1
      BY <3>1
    <3>3. at[y] <= v
      <4>1. at[y] \in Nat /\ at[x] \in Nat
        BY <1>3, <3>1
      <4>2. at[y] = at[x] \/ at[y] < at[x]
        BY <1>5, <3>1, <3>2
      <4> QED
        BY <3>1, <4>1, <4>2
    <3> QED
      BY <1>6, <3>1, <3>3
  <2>2. I \in SUBSET (1 .. Len(table))
    BY <1>6
  <2> QED
    BY <1>1, <2>1, <2>2, FirstPositions
<1> HIDE DEF k
<1>8. PICK new : new = SaveMessage(table, m)
  OBVIOUS
<1>9. new = Inserted(table, k, m)
  <2>1. (1 + k) - 1 = k /\ 1 + k = k + 1
    BY <1>1, <1>7
  <2> QED
    BY <1>8, <2>1 DEF SaveMessage, InsertAt, Inserted, k, I
<1>10. /\ new \in Seq(CopiesOf(aid))
       /\ Len(new) = Len(table) + 1
       /\ \A i \in 1 .. k : new[i] = table[i]
       /\ new[k + 1] = m
       /\ \A i \in k + 1 .. Len(table) : new[i + 1] = table[i]
  <2>1. table \in Seq(CopiesOf(aid)) /\ k \in 0 .. Len(table)
    BY <1>1, <1>7
  <2>2. PICK M : M = CopiesOf(aid)
    OBVIOUS
  <2>3. table \in Seq(M) /\ m \in M
    BY <2>1, <2>2
  <2>4. /\ Inserted(table, k, m) \in Seq(M)
        /\ Len(Inserted(table, k, m)) = Len(table) + 1
        /\ \A i \in 1 .. k : Inserted(table, k, m)[i] = table[i]
        /\ Inserted(table, k, m)[k + 1] = m
        /\ \A i \in k + 1 .. Len(table) : Inserted(table, k, m)[i + 1] = table[i]
    BY <2>1, <2>3, Insertion
  <2> QED
    BY <1>9, <2>2, <2>4
<1>11. DOMAIN new = 1 .. Len(table) + 1
  BY <1>10, LenProperties
<1>12. \A i \in 1 .. k : i \in 1 .. Len(table) /\ At(aid, new[i]) = at[i] /\ at[i] < v
  <2> SUFFICES ASSUME NEW i \in 1 .. k PROVE i \in 1 .. Len(table) /\ At(aid, new[i]) = at[i] /\ at[i] < v
    OBVIOUS
  <2>1. i \in I /\ i \in 1 .. Len(table)
    BY <1>1, <1>7
  <2>2. at[i] <= v /\ at[i] \in Nat
    BY <1>3, <1>6, <2>1
  <2> QED
    BY <1>2, <1>3, <1>4, <1>10, <2>1, <2>2
<1>13. \A i \in k + 2 .. Len(table) + 1 :
          /\ i - 1 \in 1 .. Len(table) /\ At(aid, new[i]) = at[i - 1] /\ v < at[i - 1]
  <2> SUFFICES ASSUME NEW i \in k + 2 .. Len(table) + 1
               PROVE i - 1 \in 1 .. Len(table) /\ At(aid, new[i]) = at[i - 1] /\ v < at[i - 1]
    OBVIOUS
  <2>1. i - 1 \in k + 1 .. Len(table) /\ i - 1 \in 1 .. Len(table) /\ (i - 1) + 1 = i /\ i - 1 \notin 1 .. k
    BY <1>1, <1>7
  <2>2. new[i] = table[i - 1]
    BY <1>10, <2>1
  <2>3. ~(at[i - 1] <= v) /\ at[i - 1] \in Nat
    BY <1>3, <1>6, <1>7, <2>1
  <2> QED
    BY <1>2, <1>3, <2>1, <2>2, <2>3
<1>14. ASSUME NEW x \in 1 .. Len(table) + 1, NEW y \in 1 .. x - 1 PROVE At(aid, new[y]) < At(aid, new[x])
  <2>1. CASE x \in 1 .. k
    <3>1. y \in 1 .. k
      BY <1>7, <2>1
    <3> QED
      BY <1>5, <1>12, <2>1, <3>1
  <2>2. CASE x = k + 1
    <3>1. y \in 1 .. k
      BY <1>7, <2>2
    <3> QED
      BY <1>2, <1>10, <1>12, <2>2, <3>1
  <2>3. CASE x \in k + 2 .. Len(table) + 1
    <3>1. CASE y \in 1 .. k
      <4>1. at[y] < v /\ v < at[x - 1] /\ at[y] \in Nat /\ at[x - 1] \in Nat
        BY <1>3, <1>12, <1>13, <2>3, <3>1
      <4> QED
        BY <1>2, <1>12, <1>13, <2>3, <3>1, <4>1
    <3>2. CASE y = k + 1
      BY <1>2, <1>10, <1>13, <2>3, <3>2
    <3>3. CASE y \in k + 2 .. Len(table) + 1
      <4>1. y - 1 \in 1 .. (x - 1) - 1
        BY <1>1, <1>7, <2>3, <3>3
      <4> QED
        BY <1>5, <1>13, <2>3, <3>3, <4>1
    <3> QED
      BY <1>1, <1>7, <3>1, <3>2, <3>3
  <2> QED
    BY <1>1, <1>7, <2>1, <2>2, <2>3
<1> QED
  BY <1>8, <1>11, <1>14

\* Storing an event whose predecessors that matter are there keeps the table sane.
LEMMA SaneSaved ==
    ASSUME NEW aid \in Aids, NEW table, Sane(aid, table), NEW m \in CopiesOf(aid),
           CanAppend(Logs(aid)[At(aid, m) - 1], m, Strict),
           \A y \in 1 .. At(aid, m) - 1 :
              Establishes(aid, y) => \E r \in Elements(table) : At(aid, r) = y
    PROVE Sane(aid, SaveMessage(table, m))
<1>1. PICK new : new = SaveMessage(table, m)
  OBVIOUS
<1>2. /\ table \in Seq(CopiesOf(aid)) /\ Len(table) \in Nat /\ DOMAIN table = 1 .. Len(table)
      /\ \A x \in 1 .. Len(table) : table[x] \in CopiesOf(aid)
  BY LenProperties, ElementOfSeq DEF Sane
<1>3. PICK v \in Nat : v = At(aid, m)
  BY Placed
<1>4. CASE ~Stores(table, m.body.d)
  <2>1. new \in Seq(CopiesOf(aid)) /\ Elements(new) = Elements(table) \cup {m}
    BY <1>1, <1>2, <1>4, SavedInsert
  <2>2. \A x \in DOMAIN new : \A y \in 1 .. x - 1 : At(aid, new[y]) < At(aid, new[x])
    BY <1>1, <1>4, InsertedInOrder
  <2>3. ASSUME NEW row \in Elements(new), NEW y \in 1 .. At(aid, row), Establishes(aid, y)
        PROVE \E r \in Elements(new) : At(aid, r) = y
    <3>1. CASE row \in Elements(table)
      BY <2>1, <2>3, <3>1 DEF Sane
    <3>2. CASE row = m /\ y # v
      <4>1. y \in 1 .. v - 1
        BY <1>3, <2>3, <3>2
      <4> QED
        BY <1>3, <2>1, <2>3, <4>1
    <3>3. CASE row = m /\ y = v
      BY <1>3, <2>1, <3>3
    <3> QED
      BY <2>1, <3>1, <3>2, <3>3
  <2>4. \A row \in Elements(new) : CanAppend(Logs(aid)[At(aid, row) - 1], row, Strict)
    BY <2>1 DEF Sane
  <2> QED
    BY <1>1, <2>1, <2>2, <2>3, <2>4 DEF Sane
<1>5. CASE Stores(table, m.body.d)
  <2>1. PICK x \in 1 .. Len(table) : x = RowOf(table, m.body.d) /\ table[x].body.d = m.body.d
    BY <1>2, <1>5, RowFound
  <2>2. table[x] \in CopiesOf(aid) /\ table[x].body = m.body
    BY <1>2, <2>1, IntroductionAssumption DEF CopiesOf
  <2>3. [m EXCEPT !.body = table[x].body] = m
    <3>1. m \in [body : {m.body}, sigs : {m.sigs}, wigs : {m.wigs}, hints : {m.hints}]
      BY IntroductionAssumption DEF CopiesOf
    <3> QED
      BY <2>2, <3>1
  <2>4. new = [table EXCEPT ![x] = m]
    BY <1>1, <1>5, <2>1, <2>3 DEF SaveMessage, ReplaceAt
  <2>5. /\ new \in Seq(CopiesOf(aid)) /\ DOMAIN new = 1 .. Len(table)
        /\ \A y \in 1 .. Len(table) : new[y] = IF y = x THEN m ELSE table[y]
    BY <1>2, <2>4, ExceptSeq, LenProperties
  <2>6. At(aid, table[x]) = v
    BY <1>3, <2>2, SameOrder
  <2>7. \A y \in 1 .. Len(table) : At(aid, new[y]) = At(aid, table[y])
    BY <1>3, <2>5, <2>6
  <2>8. \A y \in DOMAIN new : \A z \in 1 .. y - 1 : At(aid, new[z]) < At(aid, new[y])
    <3> SUFFICES ASSUME NEW y \in 1 .. Len(table), NEW z \in 1 .. y - 1
                 PROVE At(aid, new[z]) < At(aid, new[y])
      BY <2>5
    <3>1. z \in 1 .. Len(table)
      BY <1>2
    <3>2. At(aid, table[z]) < At(aid, table[y])
      BY <1>2 DEF Sane
    <3> QED
      BY <2>7, <3>1, <3>2
  <2>9. /\ \A row \in Elements(new) : \E r \in Elements(table) : At(aid, row) = At(aid, r)
        /\ \A r \in Elements(table) : \E row \in Elements(new) : At(aid, row) = At(aid, r)
    BY <1>2, <2>5, <2>7 DEF Elements
  <2>10. \A row \in Elements(new) : \A y \in 1 .. At(aid, row) :
            Establishes(aid, y) => \E r \in Elements(new) : At(aid, r) = y
    <3> SUFFICES ASSUME NEW row \in Elements(new), NEW y \in 1 .. At(aid, row), Establishes(aid, y)
                 PROVE \E r \in Elements(new) : At(aid, r) = y
      OBVIOUS
    <3>1. PICK old \in Elements(table) : At(aid, row) = At(aid, old)
      BY <2>9
    <3>2. PICK r \in Elements(table) : At(aid, r) = y
      BY <3>1 DEF Sane
    <3> QED
      BY <2>9, <3>2
  <2>11. ASSUME NEW row \in Elements(new) PROVE CanAppend(Logs(aid)[At(aid, row) - 1], row, Strict)
    <3>1. row = m \/ row \in Elements(table)
      BY <1>2, <2>5 DEF Elements
    <3> QED
      BY <3>1 DEF Sane
  <2> QED
    BY <1>1, <2>5, <2>8, <2>10, <2>11 DEF Sane
<1> QED
  BY <1>4, <1>5

\* What processMessage takes keeps the table sane.
LEMMA SaneProcessed ==
    ASSUME NEW aid \in Aids, NEW table, Sane(aid, table), NEW m \in CopiesOf(aid),
           NEW new \in ProcessMessage(table, m)
    PROVE Sane(aid, new)
<1>1. PICK k \in From(table, Strict) :
        /\ Includes(k, m.body.d) \/ CanAppend(k, m, Strict)
        /\ new = IF Includes(k, m.body.d) THEN table ELSE SaveMessage(table, m)
  BY DEF ProcessMessage
<1>2. CASE Includes(k, m.body.d)
  BY <1>1, <1>2
<1>3. CASE ~Includes(k, m.body.d)
  <2>1. CanAppend(k, m, Strict) /\ new = SaveMessage(table, m)
    BY <1>1, <1>3
  <2>2. CanAppend(Logs(aid)[At(aid, m) - 1], m, Strict)
    BY <1>1, <2>1, Accepted
  <2>3. \A y \in 1 .. At(aid, m) - 1 :
          Establishes(aid, y) => \E r \in Elements(table) : At(aid, r) = y
    BY <1>1, <2>1, Accepted
  <2> QED
    BY <2>1, <2>2, <2>3, SaneSaved
<1> QED
  BY <1>2, <1>3

\* So does an event that is forwarded after all before it.
LEMMA SaneForwarded ==
    ASSUME NEW aid \in Aids, NEW table, Sane(aid, table), NEW n \in 1 .. Len(History[aid]),
           \A x \in 1 .. n - 1 : Stores(table, History[aid][x].body.d)
    PROVE Sane(aid, SaveMessage(table, History[aid][n]))
<1>1. PICK h \in Seq(CopiesOf(aid)) :
        /\ h = History[aid] /\ Len(h) \in Nat
        /\ \A x \in 1 .. Len(h) : h[x] \in CopiesOf(aid)
  BY HistorySequence
<1>2. \A x \in 1 .. Len(h) : At(aid, h[x]) = x
  BY <1>1, Placed
<1>3. CanAppend(Logs(aid)[n - 1], h[n], Strict)
  BY <1>1, HistoryChain DEF Chain
<1>4. ASSUME NEW y \in 1 .. n - 1 PROVE \E r \in Elements(table) : At(aid, r) = y
  <2>1. y \in 1 .. Len(h)
    BY <1>1
  <2>2. PICK r \in Elements(table) : r.body.d = h[y].body.d
    BY <1>1 DEF Stores
  <2>3. r \in CopiesOf(aid)
    BY <2>2, LenProperties, ElementOfSeq DEF Sane, Elements
  <2> QED
    BY <1>1, <1>2, <2>1, <2>2, <2>3, SameOrder
<1> QED
  BY <1>1, <1>2, <1>3, <1>4, SaneSaved

\* Messages that travel stay what they are in a table.
LEMMA SavedTravelling ==
    ASSUME NEW table \in Seq(Travelling), NEW m \in Travelling
    PROVE SaveMessage(table, m) \in Seq(Travelling)
<1>1. CASE ~Stores(table, m.body.d)
  BY <1>1, SavedInsert
<1>2. CASE Stores(table, m.body.d)
  <2>1. PICK x \in DOMAIN table : x = RowOf(table, m.body.d) /\ table[x].body.d = m.body.d
    BY <1>2, RowFound
  <2>2. table[x] \in Travelling
    BY LenProperties, ElementOfSeq
  <2>3. table[x].body = m.body
    BY <2>1, <2>2, IntroductionAssumption
  <2>4. [m EXCEPT !.body = table[x].body] = m
    <3>1. m \in [body : {m.body}, sigs : {m.sigs}, wigs : {m.wigs}, hints : {m.hints}]
      BY IntroductionAssumption
    <3> QED
      BY <2>3, <3>1
  <2>5. SaveMessage(table, m) = [table EXCEPT ![x] = m]
    BY <1>2, <2>1, <2>4 DEF SaveMessage, ReplaceAt
  <2> QED
    BY <2>5, ExceptSeq, LenProperties
<1> QED
  BY <1>1, <1>2

\* Also when they are stored one after the other.
LEMMA AllTravelling ==
    ASSUME NEW stored \in Seq(Travelling), NEW messages \in Seq(Travelling)
    PROVE SaveAll(stored, messages) \in Seq(Travelling)
<1>1. Len(messages) \in Nat /\ \A x \in 1 .. Len(messages) : messages[x] \in Travelling
  BY LenProperties, ElementOfSeq
<1>2. PICK after :
        /\ SaveAll(stored, messages) = after[Len(messages)]
        /\ after[0] = stored
        /\ \A x \in 1 .. Len(messages) : after[x] = SaveMessage(after[x - 1], messages[x])
  <2>1. Len(messages) \in Nat
    BY <1>1
  <2> QED
    BY <2>1, SaveAllRecursion, Z3
<1> DEFINE S == {x \in Nat : x <= Len(messages) => after[x] \in Seq(Travelling)}
<1>3. 0 \in S
  BY <1>2
<1>4. ASSUME NEW x \in Nat, x \in S PROVE x + 1 \in S
  <2> SUFFICES ASSUME x + 1 <= Len(messages) PROVE after[x + 1] \in Seq(Travelling)
    OBVIOUS
  <2>1. x + 1 \in 1 .. Len(messages) /\ (x + 1) - 1 = x /\ after[x] \in Seq(Travelling)
    BY <1>1, <1>4
  <2>2. after[x + 1] = SaveMessage(after[x], messages[x + 1])
    BY <1>2, <2>1
  <2> QED
    BY <1>1, <2>1, <2>2, SavedTravelling
<1> HIDE DEF S
<1>5. Len(messages) \in S
  BY <1>1, <1>3, <1>4, SetInduction
<1> QED
  BY <1>1, <1>2, <1>5 DEF S

-----------------------------------------------------------------------------
(* The tables, and the answer introduce is storing. *)

\* What the host stores and what introduce has still to take are copies that travel.
Authentic ==
    /\ hosted \in [Aids -> Seq(Travelling)]
    /\ call.pc = "running" => call.events \in Seq(Travelling)

AllSane == \A aid \in Aids : Sane(aid, rows[aid])

\* One table changes, and stays sane.
LEMMA RowsSane ==
    ASSUME Typed, AllSane, NEW id \in Aids, NEW after, Sane(id, after),
           rows' = [rows EXCEPT ![id] = after]
    PROVE AllSane'
BY DEF Typed, AllSane

\* One table of the host changes, and holds copies that travel.
LEMMA HostedAuthentic ==
    ASSUME Authentic, NEW id, NEW after,
           id \in Aids => after \in Seq(Travelling), hosted' = [hosted EXCEPT ![id] = after]
    PROVE hosted' \in [Aids -> Seq(Travelling)]
BY DEF Authentic

\* Nothing is stored.
LEMMA InitSane == Init => Authentic /\ AllSane
<1> SUFFICES ASSUME Init PROVE Authentic /\ AllSane
  OBVIOUS
<1>1. \A aid \in Aids : Sane(aid, <<>>)
  BY DEF Sane, Elements
<1> QED
  BY <1>1 DEF Init, NoCall, Authentic, AllSane

\* The host stores what owners post, which are copies of their events.
LEMMA EnrollAuthentic ==
    ASSUME Authentic, NEW aid \in Aids, NEW n \in 1 .. Len(History[aid]), NEW kel \in Posts(aid, n),
           NEW rpy, Enroll(kel, rpy)
    PROVE Authentic'
<1>1. kel \in Seq(Travelling)
  <2>1. n \in Nat
    BY HistorySequence
  <2>2. kel \in [1 .. n -> Travelling]
    BY DEF Posts, SentFor, Travelling
  <2> QED
    BY <2>1, <2>2, SeqDef
<1>2. PICK log \in FromMessages(kel, PartiallyWitnessed) :
        hosted' = [hosted EXCEPT ![log.state.identifier] = SaveAll(@, log.events)]
  BY DEF Enroll
<1>3. "delegator" \in DOMAIN PartiallyWitnessed /\ PartiallyWitnessed.delegator = Null
  BY DEF PartiallyWitnessed, Options
<1>4. PICK events \in Seq(Travelling) : log.events = events
  <2>1. StreamLog(log, kel, Travelling)
    BY <1>1, <1>3, FromMessagesIsLog
  <2> QED
    BY <2>1 DEF StreamLog, IsLogOf
<1>5. PICK id : id = log.state.identifier
  OBVIOUS
<1>6. PICK after : after = SaveAll(hosted[id], events)
  OBVIOUS
<1>7. hosted' = [hosted EXCEPT ![id] = after]
  BY <1>2, <1>4, <1>5, <1>6
<1>8. id \in Aids => after \in Seq(Travelling)
  <2> SUFFICES ASSUME id \in Aids PROVE after \in Seq(Travelling)
    OBVIOUS
  <2>1. hosted[id] \in Seq(Travelling)
    BY DEF Authentic
  <2> QED
    BY <1>6, <2>1, AllTravelling
<1>9. hosted' \in [Aids -> Seq(Travelling)]
  BY <1>7, <1>8, HostedAuthentic
<1> QED
  BY <1>9 DEF Authentic, Enroll

\* So it does with what is pushed at it.
LEMMA IntakeAuthentic ==
    ASSUME Authentic, NEW m \in Sent, Intake(m)
    PROVE Authentic'
<1>1. m \in Travelling /\ m.body.i \in Aids
  BY IntroductionAssumption DEF Travelling
<1>2. PICK id \in Aids : id = m.body.i
  BY <1>1
<1>3. PICK after : after = SaveMessage(hosted[id], m)
  OBVIOUS
<1>4. hosted' = [hosted EXCEPT ![id] = after]
  BY <1>2, <1>3 DEF Intake
<1>5. after \in Seq(Travelling)
  <2>1. hosted[id] \in Seq(Travelling)
    BY DEF Authentic
  <2> QED
    BY <1>1, <1>3, <2>1, SavedTravelling
<1>6. hosted' \in [Aids -> Seq(Travelling)]
  BY <1>4, <1>5, HostedAuthentic
<1> QED
  BY <1>6 DEF Authentic, Intake

\* An answer is made of what the host stores.
LEMMA IntroduceAuthentic ==
    ASSUME Authentic, NEW aid \in Aids, Introduce(aid)
    PROVE Authentic'
<1>1. PICK messages \in Answers(aid) : call'.events = messages
  BY DEF Introduce
<1>2. hosted[aid] \in Seq(Travelling)
  BY DEF Authentic
<1>3. messages \in Seq(Travelling)
  <2>1. CASE messages = hosted[aid]
    BY <1>2, <2>1
  <2>2. ASSUME NEW m \in Elements(hosted[aid]), m.body.t = "dip",
               messages = hosted[m.body.di] \o hosted[aid]
        PROVE messages \in Seq(Travelling)
    <3>1. PICK table \in Seq(Travelling) : table = hosted[aid]
      BY <1>2
    <3>2. m \in Travelling
      BY <2>2, <3>1, LenProperties, ElementOfSeq DEF Elements
    <3>3. m.body.di \in Aids
      BY <2>2, <3>2, IntroductionAssumption
    <3>4. hosted[m.body.di] \in Seq(Travelling)
      BY <3>3 DEF Authentic
    <3> QED
      BY <1>2, <2>2, <3>4, ConcatElements
  <2> QED
    BY <2>1, <2>2 DEF Answers
<1> QED
  BY <1>1, <1>3 DEF Authentic, Introduce

\* The next event of the answer is a copy of an event, and so are the others.
LEMMA ProcessEventSane ==
    ASSUME IInv, Authentic, AllSane, ProcessEvent
    PROVE Authentic' /\ AllSane'
<1>1. /\ call.pc = "running" /\ call.events # <<>> /\ call.events \in Seq(Travelling)
      /\ DOMAIN call = {"pc", "log", "about", "events", "others"}
      /\ UNCHANGED hosted
  BY DEF ProcessEvent, IInv, Typed, Authentic
<1>2. CASE call' = NoCall /\ UNCHANGED rows
  BY <1>1, <1>2 DEF NoCall, Authentic, AllSane
<1>3. PICK events \in Seq(Travelling) : events = call.events /\ events # <<>>
  BY <1>1
<1>4. Head(events) \in Travelling /\ Tail(events) \in Seq(Travelling)
  BY <1>3, HeadTailProperties
<1>5. PICK m \in Travelling : m = Head(call.events)
  BY <1>3, <1>4
<1>6. ASSUME NEW after \in ProcessMessage(rows[m.body.i], m), rows' = [rows EXCEPT ![m.body.i] = after],
             call' = [call EXCEPT !.events = Tail(@)]
      PROVE Authentic' /\ AllSane'
  <2>1. PICK id \in Aids : id = m.body.i
    BY IntroductionAssumption
  <2>2. m \in CopiesOf(id) /\ Sane(id, rows[id])
    BY <2>1 DEF CopiesOf, AllSane
  <2>3. Sane(id, after)
    BY <1>6, <2>1, <2>2, SaneProcessed
  <2>4. AllSane'
    BY <1>6, <2>1, <2>3, RowsSane DEF IInv
  <2>5. call'.events = Tail(events)
    BY <1>1, <1>3, <1>6
  <2> QED
    BY <1>1, <1>4, <2>4, <2>5 DEF Authentic
<1> QED
  BY <1>2, <1>5, <1>6 DEF ProcessEvent

\* So is an event that arrives by itself.
LEMMA DeliverSane ==
    ASSUME IInv, AllSane, NEW m \in Sent, Deliver(m)
    PROVE AllSane'
<1>1. PICK id \in Aids : id = m.body.i
  BY IntroductionAssumption DEF Travelling
<1>2. PICK after \in ProcessMessage(rows[id], m) : rows' = [rows EXCEPT ![id] = after]
  BY <1>1 DEF Deliver
<1>3. m \in CopiesOf(id) /\ Sane(id, rows[id])
  BY <1>1 DEF CopiesOf, AllSane, Travelling
<1> QED
  BY <1>2, <1>3, SaneProcessed, RowsSane DEF IInv

\* A forwarded event is one of the history.
LEMMA ForwardedSane ==
    ASSUME IInv, AllSane, NEW aid \in Aids, NEW n \in 1 .. Len(History[aid]), Forwarded(aid, n)
    PROVE AllSane'
<1>1. Sane(aid, rows[aid])
  BY DEF AllSane
<1>2. PICK after : after = SaveMessage(rows[aid], History[aid][n])
  OBVIOUS
<1>3. Sane(aid, after)
  BY <1>1, <1>2, SaneForwarded DEF Forwarded
<1>4. rows' = [rows EXCEPT ![aid] = after]
  BY <1>2 DEF Forwarded
<1> QED
  BY <1>3, <1>4, RowsSane DEF IInv

\* Every step keeps the tables sane.
LEMMA NextSane == IInv /\ Authentic /\ AllSane /\ [Next]_vars => Authentic' /\ AllSane'
<1> SUFFICES ASSUME IInv, Authentic, AllSane, [Next]_vars PROVE Authentic' /\ AllSane'
  OBVIOUS
<1>1. ASSUME NEW aid \in Aids, NEW n \in 1 .. Len(History[aid]), NEW kel \in Posts(aid, n),
             NEW rpy \in EndRolesOf(aid), Enroll(kel, rpy)
      PROVE Authentic' /\ AllSane'
  BY <1>1, EnrollAuthentic DEF Enroll, AllSane
<1>2. ASSUME NEW m \in Sent, Intake(m) PROVE Authentic' /\ AllSane'
  BY <1>2, IntakeAuthentic DEF Intake, AllSane
<1>3. ASSUME NEW aid \in Aids, Introduce(aid) PROVE Authentic' /\ AllSane'
  BY <1>3, IntroduceAuthentic DEF Introduce, AllSane
<1>4. CASE ProcessEvent
  BY <1>4, ProcessEventSane
<1>5. ASSUME NEW rpy, ProcessReply(rpy) PROVE Authentic' /\ AllSane'
  <2>1. /\ call.pc = "running" /\ DOMAIN call = {"pc", "log", "about", "events", "others"}
        /\ call' = [call EXCEPT !.others = @ \ {rpy}] /\ UNCHANGED <<hosted, rows>>
    BY <1>5 DEF ProcessReply, IInv, Typed
  <2>2. call'.events = call.events
    BY <2>1
  <2> QED
    BY <2>1, <2>2 DEF Authentic, AllSane
<1>6. CASE Return
  <2>1. call'.pc = "returned" /\ UNCHANGED <<hosted, rows>>
    BY <1>6 DEF Return
  <2> QED
    BY <2>1 DEF Authentic, AllSane
<1>7. ASSUME NEW m \in Sent, Deliver(m) PROVE Authentic' /\ AllSane'
  <2>1. UNCHANGED <<hosted, call>>
    BY <1>7 DEF Deliver
  <2> QED
    BY <1>7, <2>1, DeliverSane DEF Authentic
<1>8. ASSUME NEW aid \in Aids, NEW n \in 1 .. Len(History[aid]), Forwarded(aid, n)
      PROVE Authentic' /\ AllSane'
  <2>1. UNCHANGED <<hosted, call>>
    BY <1>8 DEF Forwarded
  <2> QED
    BY <1>8, <2>1, ForwardedSane DEF Authentic
<1>9. CASE UNCHANGED vars
  BY <1>9 DEF vars, Authentic, AllSane
<1> QED
  BY <1>1, <1>2, <1>3, <1>4, <1>5, <1>6, <1>7, <1>8, <1>9 DEF Next

\* The tables are sane in every reachable state.
LEMMA SaneInvariant == Spec => [](IInv /\ AllSane)
<1>1. Init => IInv /\ Authentic /\ AllSane
  BY InitIInv, InitSane
<1>2. IInv /\ Authentic /\ AllSane /\ [Next]_vars => (IInv /\ Authentic /\ AllSane)'
  BY NextIInv, NextSane
<1> QED
  BY <1>1, <1>2, PTL DEF Spec

\* processMessage, append, getKeyEvents: whatever order and copies the events came in
\* and whatever introductions failed half-way, the stored log replays strictly.
THEOREM Replays == Spec => []ReceiverReplays
<1>1. IInv /\ AllSane => ReceiverReplays
  <2> SUFFICES ASSUME AllSane, NEW aid \in Aids PROVE From(rows[aid], Strict) # {}
    BY DEF ReceiverReplays, Loads
  <2>1. Sane(aid, rows[aid])
    BY DEF AllSane
  <2> QED
    BY <2>1, SaneReplays
<1> QED
  BY <1>1, SaneInvariant, PTL

-----------------------------------------------------------------------------
(* A failed introduction is not final. *)

Taken(tables, m) == UNION {ProcessMessage(table, m) : table \in tables}

TakenInTurn(after, stored, messages) ==
    /\ after[Len(messages)] # {} => TakesAll(stored, messages)
    /\ after[0] = {stored}
    /\ \A x \in 1 .. Len(messages) : after[x] = Taken(after[x - 1], messages[x])

\* The loop that takes the events of a history.
LEMMA TakesAllRecursion ==
    ASSUME NEW stored, NEW messages, Len(messages) \in Nat
    PROVE \E after : TakenInTurn(after, stored, messages)
<1> DEFINE n == Len(messages)
           S == {k \in Nat : \E f : f = [x \in 0 .. k |-> IF x = 0 THEN {stored}
                                                         ELSE Taken(f[x - 1], messages[x])]}
<1>1. 0 \in S
  <2> DEFINE f == [x \in 0 .. 0 |-> {stored}]
  <2>1. f = [x \in 0 .. 0 |-> IF x = 0 THEN {stored} ELSE Taken(f[x - 1], messages[x])]
    OBVIOUS
  <2> HIDE DEF f
  <2> QED
    BY <2>1
<1>2. \A k \in Nat : k \in S => k + 1 \in S
  <2> SUFFICES ASSUME NEW k \in Nat, k \in S PROVE k + 1 \in S
    OBVIOUS
  <2>1. PICK f : f = [x \in 0 .. k |-> IF x = 0 THEN {stored} ELSE Taken(f[x - 1], messages[x])]
    OBVIOUS
  <2> DEFINE g == [x \in 0 .. k + 1 |-> IF x = 0 THEN {stored} ELSE Taken(f[x - 1], messages[x])]
  <2>2. \A x \in 0 .. k : f[x] = IF x = 0 THEN {stored} ELSE Taken(f[x - 1], messages[x])
    BY <2>1
  <2>3. \A x \in 0 .. k + 1 : g[x] = IF x = 0 THEN {stored} ELSE Taken(f[x - 1], messages[x])
    OBVIOUS
  <2>4. \A x \in 0 .. k : g[x] = f[x]
    <3>1. \A x \in 0 .. k : x \in 0 .. k + 1
      OBVIOUS
    <3> QED
      BY <2>2, <2>3, <3>1
  <2> HIDE DEF g
  <2>5. \A x \in 0 .. k + 1 : x # 0 => f[x - 1] = g[x - 1]
    <3>1. \A x \in 0 .. k + 1 : x # 0 => x - 1 \in 0 .. k
      OBVIOUS
    <3> QED
      BY <2>4, <3>1
  <2>6. g = [x \in 0 .. k + 1 |-> IF x = 0 THEN {stored} ELSE Taken(g[x - 1], messages[x])]
    BY <2>5 DEF g
  <2>7. k + 1 \in Nat
    OBVIOUS
  <2> QED
    BY <2>6, <2>7
<1> HIDE DEF S
<1>3. n \in S
  BY <1>1, <1>2, SetInduction
<1> DEFINE after == CHOOSE f : f = [x \in 0 .. n |-> IF x = 0 THEN {stored}
                                                   ELSE Taken(f[x - 1], messages[x])]
<1>4. after = [x \in 0 .. n |-> IF x = 0 THEN {stored} ELSE Taken(after[x - 1], messages[x])]
  BY <1>3 DEF S
<1>5. after[n] # {} => TakesAll(stored, messages)
  BY DEF TakesAll, Taken
<1> HIDE DEF after
<1>6. \A x \in 0 .. n : after[x] = IF x = 0 THEN {stored} ELSE Taken(after[x - 1], messages[x])
  BY <1>4
<1>7. after[0] = {stored} /\ \A x \in 1 .. n : after[x] = Taken(after[x - 1], messages[x])
  <2>1. 0 \in 0 .. n /\ \A x \in 1 .. n : x \in 0 .. n /\ x # 0
    OBVIOUS
  <2> QED
    BY <1>6, <2>1
<1> QED
  BY <1>5, <1>7 DEF TakenInTurn

\* The first rows of a table are the first events of the history.
Leading(aid, table) == \A x \in DOMAIN table : At(aid, table[x]) = x

\* A table without a gap has no more rows than the history, each in its place.
LEMMA GaplessLeads ==
    ASSUME NEW aid \in Aids, Sane(aid, rows[aid]), Gapless(aid)
    PROVE Leading(aid, rows[aid])
<1>1. PICK table \in Seq(CopiesOf(aid)) : table = rows[aid] /\ Sane(aid, table)
  BY DEF Sane
<1>2. /\ Len(table) \in Nat /\ DOMAIN table = 1 .. Len(table)
      /\ \A x \in 1 .. Len(table) : table[x] \in CopiesOf(aid)
  BY LenProperties, ElementOfSeq
<1> DEFINE S == {n \in Nat : n \in 1 .. Len(table) => n <= At(aid, table[n])}
<1>3. 0 \in S
  OBVIOUS
<1>4. ASSUME NEW n \in Nat, n \in S PROVE n + 1 \in S
  <2> SUFFICES ASSUME n + 1 \in 1 .. Len(table) PROVE n + 1 <= At(aid, table[n + 1])
    OBVIOUS
  <2>1. PICK v \in Nat : v = At(aid, table[n + 1]) /\ 1 <= v
    BY <1>2, Placed, HistorySequence
  <2>2. CASE n = 0
    BY <2>1, <2>2
  <2>3. CASE n # 0
    <3>1. n \in 1 .. Len(table) /\ n \in 1 .. (n + 1) - 1
      BY <1>2, <2>3
    <3>2. PICK u \in Nat : u = At(aid, table[n])
      BY <1>2, <3>1, Placed, HistorySequence
    <3>3. n <= u
      BY <1>4, <3>1, <3>2
    <3>4. u < v
      BY <1>1, <1>2, <2>1, <3>1, <3>2 DEF Sane
    <3> QED
      BY <2>1, <3>2, <3>3, <3>4
  <2> QED
    BY <2>2, <2>3
<1> HIDE DEF S
<1> SUFFICES ASSUME NEW x \in 1 .. Len(table) PROVE At(aid, table[x]) = x
  BY <1>1, <1>2 DEF Leading
<1>5. x \in S
  BY <1>2, <1>3, <1>4, SetInduction
<1>6. x <= At(aid, table[x]) /\ At(aid, table[x]) \in 1 .. Len(History[aid])
  BY <1>2, <1>5, Placed DEF S
<1>7. x \in 1 .. Len(History[aid])
  BY <1>2, <1>6, HistorySequence
<1>8. table[x].body = History[aid][x].body
  BY <1>1, <1>2 DEF Gapless
<1> QED
  BY <1>2, <1>7, <1>8, Placed

\* A table with the first events takes the one after those it has been offered.
LEMMA TakesNext ==
    ASSUME NEW aid \in Aids, NEW table, Sane(aid, table), Leading(aid, table),
           NEW n \in 1 .. Len(History[aid]), n - 1 <= Len(table)
    PROVE /\ ProcessMessage(table, History[aid][n]) # {}
          /\ \A new \in ProcessMessage(table, History[aid][n]) :
                Sane(aid, new) /\ Leading(aid, new) /\ n <= Len(new)
<1>1. PICK m \in CopiesOf(aid) : m = History[aid][n] /\ At(aid, m) = n /\ n \in Nat
  <2>1. History[aid][n] \in CopiesOf(aid) /\ n \in Nat
    BY HistorySequence
  <2>2. At(aid, History[aid][n]) = n
    BY <2>1, Placed
  <2> QED
    BY <2>1, <2>2
<1>2. /\ table \in Seq(CopiesOf(aid)) /\ Len(table) \in Nat /\ DOMAIN table = 1 .. Len(table)
      /\ \A x \in 1 .. Len(table) : table[x] \in CopiesOf(aid) /\ At(aid, table[x]) = x
  BY LenProperties, ElementOfSeq DEF Sane, Leading
<1>3. PICK k : From(table, Strict) = {k} /\ Like(k, Logs(aid)[Reach(aid, table)])
  BY SaneReplays
<1>4. k.events = table
  BY <1>2, <1>3, FromIsLog DEF IsLogOf
<1>5. CASE n <= Len(table)
  <2>1. n \in 1 .. Len(table)
    BY <1>2, <1>5
  <2>2. table[n].body.d = m.body.d
    BY <1>1, <1>2, <2>1, SameOrder
  <2>3. Includes(k, m.body.d)
    BY <1>2, <1>4, <2>1, <2>2 DEF Includes, Stores, Elements
  <2>4. ProcessMessage(table, m) = {table}
    BY <1>3, <2>3 DEF ProcessMessage
  <2> QED
    BY <1>1, <1>5, <2>4
<1>6. CASE ~(n <= Len(table))
  <2>1. n = Len(table) + 1
    BY <1>1, <1>2, <1>6
  <2>2. Reach(aid, table) = n - 1
    <3>1. CASE table = <<>>
      BY <1>2, <2>1, <3>1 DEF Reach
    <3>2. CASE table # <<>>
      <4>1. Len(table) \in 1 .. Len(table)
        BY <1>2, <3>2, EmptySeq
      <4> QED
        BY <1>2, <2>1, <3>2, <4>1 DEF Reach
    <3> QED
      BY <3>1, <3>2
  <2>3. CanAppend(k, m, Strict)
    <3>1. CanAppend(Logs(aid)[n - 1], m, Strict)
      BY <1>1, HistoryChain DEF Chain
    <3> QED
      BY <1>3, <2>2, <3>1, LikeEquivalent, LikeAccepts
  <2>4. ~Stores(table, m.body.d)
    <3> SUFFICES ASSUME NEW x \in 1 .. Len(table), table[x].body.d = m.body.d PROVE FALSE
      BY <1>2 DEF Stores, Elements
    <3>1. x = n
      BY <1>1, <1>2, SameOrder
    <3> QED
      BY <1>2, <1>6, <3>1
  <2>5. ProcessMessage(table, m) = {SaveMessage(table, m)}
    BY <1>3, <1>4, <2>3, <2>4 DEF ProcessMessage, Includes
  <2>6. SaveMessage(table, m) = Append(table, m)
    <3>1. \A x \in DOMAIN table : table[x].body.s <= m.body.s
      <4> SUFFICES ASSUME NEW x \in 1 .. Len(table) PROVE table[x].body.s <= m.body.s
        BY <1>2
      <4>1. At(aid, table[x]) <= At(aid, m)
        BY <1>1, <1>2, <2>1
      <4> QED
        BY <1>2, <4>1, SameOrder
    <3> QED
      BY <1>2, <2>4, <3>1, SavedLast
  <2>7. PICK new : new = Append(table, m)
    OBVIOUS
  <2>8. Sane(aid, new)
    <3>1. new \in ProcessMessage(table, m)
      BY <2>5, <2>6, <2>7
    <3> QED
      BY <3>1, SaneProcessed
  <2>9. /\ Len(new) = n /\ DOMAIN new = 1 .. n
        /\ new[n] = m /\ \A x \in 1 .. Len(table) : new[x] = table[x]
    BY <1>2, <2>1, <2>7, AppendProperties, LenProperties
  <2>10. Leading(aid, new)
    <3> SUFFICES ASSUME NEW x \in 1 .. n PROVE At(aid, new[x]) = x
      BY <2>9 DEF Leading
    <3>1. x = n \/ x \in 1 .. Len(table)
      BY <1>2, <2>1
    <3> QED
      BY <1>1, <1>2, <2>9, <3>1
  <2> QED
    BY <1>1, <2>5, <2>6, <2>7, <2>8, <2>9, <2>10
<1> QED
  BY <1>5, <1>6

\* processMessage: while no event was skipped, the receiver still takes the complete
\* history from where it is, whatever was refused or broke off before.
THEOREM CanRetry == Spec => []Retryable
<1>1. IInv /\ AllSane => Retryable
  <2> SUFFICES ASSUME AllSane, NEW aid \in Aids, Gapless(aid) PROVE TakesAll(rows[aid], History[aid])
    BY DEF Retryable
  <2>1. PICK log : log = History[aid] /\ Len(log) \in Nat
    BY HistorySequence
  <2>2. PICK stored : stored = rows[aid] /\ Sane(aid, stored) /\ Leading(aid, stored)
    BY GaplessLeads DEF AllSane
  <2>3. PICK after :
          /\ after[Len(log)] # {} => TakesAll(stored, log)
          /\ after[0] = {stored}
          /\ \A x \in 1 .. Len(log) : after[x] = Taken(after[x - 1], log[x])
    <3>1. PICK after : TakenInTurn(after, stored, log)
      BY <2>1, TakesAllRecursion
    <3> QED
      BY <3>1 DEF TakenInTurn
  <2> DEFINE Ready(n) == /\ after[n] # {}
                         /\ \A t \in after[n] : Sane(aid, t) /\ Leading(aid, t) /\ n <= Len(t)
             S == {n \in Nat : n <= Len(log) => Ready(n)}
  <2>4. 0 \in S
    <3>1. 0 <= Len(stored)
      BY <2>2, LenProperties DEF Sane
    <3> QED
      BY <2>2, <2>3, <3>1
  <2>5. ASSUME NEW n \in Nat, n \in S PROVE n + 1 \in S
    <3> SUFFICES ASSUME n + 1 <= Len(log) PROVE Ready(n + 1)
      OBVIOUS
    <3>1. n + 1 \in 1 .. Len(log) /\ (n + 1) - 1 = n /\ n <= Len(log)
      BY <2>1
    <3>2. Ready(n)
      BY <2>5, <3>1
    <3>3. after[n + 1] = UNION {ProcessMessage(t, log[n + 1]) : t \in after[n]}
      BY <2>3, <3>1 DEF Taken
    <3>4. \A t \in after[n] :
            /\ ProcessMessage(t, log[n + 1]) # {}
            /\ \A new \in ProcessMessage(t, log[n + 1]) :
                  Sane(aid, new) /\ Leading(aid, new) /\ n + 1 <= Len(new)
      BY <2>1, <3>1, <3>2, TakesNext
    <3> QED
      BY <3>2, <3>3, <3>4
  <2> HIDE DEF S
  <2>6. Ready(Len(log))
    <3>1. Len(log) \in S
      BY <2>1, <2>4, <2>5, SetInduction
    <3> QED
      BY <2>1, <3>1 DEF S
  <2> QED
    BY <2>1, <2>2, <2>3, <2>6
<1> QED
  BY <1>1, SaneInvariant, PTL


-----------------------------------------------------------------------------
(* verify: what collect makes of the stream. *)

\* Every message of a stream of pieces is in one of the pieces.
SentMessages == UNION {Elements(piece) : piece \in Pieces}

\* One after the other, sequences of messages make a sequence of messages.
LEMMA FlattenRecursion ==
    ASSUME NEW M, NEW seqs \in Seq(Seq(M)), Len(seqs) # 0
    PROVE \E f : /\ FlattenSeq(seqs) = f[Len(seqs)]
                 /\ \A i \in 1 .. Len(seqs) : f[i] = IF i = 1 THEN seqs[i] ELSE f[i - 1] \o seqs[i]
<1> DEFINE n == Len(seqs)
           Step(f, i) == IF i = 1 THEN seqs[i] ELSE f[i - 1] \o seqs[i]
           S == {k \in Nat : \E f : f = [i \in 1 .. k |-> Step(f, i)]}
<1>0. n \in Nat /\ n # 0
  BY LenProperties
<1>1. 0 \in S
  <2> DEFINE f == [i \in 1 .. 0 |-> Step(<<>>, i)]
  <2>1. f = [i \in 1 .. 0 |-> Step(f, i)]
    OBVIOUS
  <2> HIDE DEF f
  <2> QED
    BY <2>1
<1>2. \A k \in Nat : k \in S => k + 1 \in S
  <2> SUFFICES ASSUME NEW k \in Nat, k \in S PROVE k + 1 \in S
    OBVIOUS
  <2>1. PICK f : f = [i \in 1 .. k |-> Step(f, i)]
    OBVIOUS
  <2> DEFINE g == [i \in 1 .. k + 1 |-> Step(f, i)]
  <2> HIDE DEF Step
  <2>2. \A i \in 1 .. k : f[i] = Step(f, i)
    BY <2>1
  <2>3. \A i \in 1 .. k + 1 : g[i] = Step(f, i)
    OBVIOUS
  <2>4. \A i \in 1 .. k : g[i] = f[i]
    <3>1. \A i \in 1 .. k : i \in 1 .. k + 1
      OBVIOUS
    <3> QED
      BY <2>2, <2>3, <3>1
  <2> HIDE DEF g
  <2>5. \A i \in 1 .. k + 1 : i # 1 => f[i - 1] = g[i - 1]
    <3>1. \A i \in 1 .. k + 1 : i # 1 => i - 1 \in 1 .. k
      OBVIOUS
    <3> QED
      BY <2>4, <3>1
  <2>6. \A i \in 1 .. k + 1 : Step(f, i) = Step(g, i)
    BY <2>5 DEF Step
  <2>7. g = [i \in 1 .. k + 1 |-> Step(g, i)]
    BY <2>6 DEF g
  <2>8. k + 1 \in Nat
    OBVIOUS
  <2> QED
    BY <2>7, <2>8
<1> HIDE DEF S
<1>3. n \in S
  BY <1>0, <1>1, <1>2, SetInduction
<1> DEFINE flatten == CHOOSE f : f = [i \in 1 .. n |-> Step(f, i)]
<1>4. flatten = [i \in 1 .. n |-> Step(flatten, i)]
  BY <1>3 DEF S
<1>5. FlattenSeq(seqs) = flatten[n]
  BY <1>0 DEF FlattenSeq
<1> HIDE DEF flatten, Step
<1>6. \A i \in 1 .. n : flatten[i] = Step(flatten, i)
  BY <1>4
<1> QED
  BY <1>5, <1>6 DEF Step

\* What FlattenSeq makes of sequences of messages is one.
LEMMA FlattenIsSequence ==
    ASSUME NEW M, NEW seqs \in Seq(Seq(M))
    PROVE FlattenSeq(seqs) \in Seq(M)
<1>1. Len(seqs) \in Nat /\ DOMAIN seqs = 1 .. Len(seqs)
  BY LenProperties
<1>2. CASE Len(seqs) = 0
  <2>1. seqs = <<>>
    BY <1>2, EmptySeq
  <2> QED
    BY <1>2, <2>1, EmptySeq DEF FlattenSeq
<1>3. CASE Len(seqs) # 0
  <2>1. PICK f : /\ FlattenSeq(seqs) = f[Len(seqs)]
                 /\ \A i \in 1 .. Len(seqs) : f[i] = IF i = 1 THEN seqs[i] ELSE f[i - 1] \o seqs[i]
    BY <1>3, FlattenRecursion
  <2> DEFINE S == {k \in Nat : k \in 1 .. Len(seqs) => f[k] \in Seq(M)}
  <2>2. 0 \in S
    BY <1>1
  <2>3. \A k \in Nat : k \in S => k + 1 \in S
    <3> SUFFICES ASSUME NEW k \in Nat, k \in S, k + 1 \in 1 .. Len(seqs) PROVE f[k + 1] \in Seq(M)
      <4>1. \A k \in Nat : k + 1 \in Nat
        OBVIOUS
      <4> QED
        BY <4>1
    <3>1. seqs[k + 1] \in Seq(M)
      BY <1>1, ElementOfSeq
    <3>2. CASE k = 0
      <4>1. f[1] = seqs[1]
        BY <2>1, <3>2
      <4> QED
        BY <3>1, <3>2, <4>1
    <3>3. CASE k # 0
      <4>1. k \in 1 .. Len(seqs) /\ (k + 1) - 1 = k /\ k + 1 # 1
        BY <1>1, <3>3
      <4>2. f[k + 1] = f[k] \o seqs[k + 1]
        BY <2>1, <4>1
      <4>3. f[k] \in Seq(M)
        BY <4>1
      <4> QED
        BY <3>1, <4>2, <4>3, ConcatProperties
    <3> QED
      BY <3>2, <3>3
  <2> HIDE DEF S
  <2>4. Len(seqs) \in S
    BY <1>1, <2>2, <2>3, SetInduction
  <2> QED
    BY <1>1, <1>3, <2>1, <2>4 DEF S
<1> QED
  BY <1>2, <1>3

\* What the exchanges of a list carry.
Unwrapped(list) == FlattenSeq([x \in DOMAIN list |-> Carried(list[x])])

\* The levels of a stream, each unwrapped from the one before.
Nested(level, messages) ==
    /\ level[0] = messages
    /\ \A n \in 1 .. MaxNesting : level[n] = Unwrapped(level[n - 1])

\* What flatten looks at, level by level, and what of it is no exchange.
LaidOut(level) == FlattenSeq([n \in 1 .. MaxNesting + 1 |-> level[n - 1]])

NoExchange(list) == Selected(list, {x \in DOMAIN list : list[x].body.t # "exn"})

\* The function of the levels exists, as far down as the bound.
LEMMA PendingLevels ==
    ASSUME NEW messages
    PROVE \E level : Nested(level, messages) /\ Pending(messages) = NoExchange(LaidOut(level))
<1> DEFINE n == MaxNesting
           S == {k \in Nat : \E f : f = [x \in 0 .. k |-> IF x = 0 THEN messages ELSE Unwrapped(f[x - 1])]}
<1>0. n \in Nat
  BY VerificationAssumption
<1>1. 0 \in S
  <2> DEFINE f == [x \in 0 .. 0 |-> messages]
  <2>1. f = [x \in 0 .. 0 |-> IF x = 0 THEN messages ELSE Unwrapped(f[x - 1])]
    OBVIOUS
  <2> HIDE DEF f
  <2> QED
    BY <2>1
<1>2. \A k \in Nat : k \in S => k + 1 \in S
  <2> SUFFICES ASSUME NEW k \in Nat, k \in S PROVE k + 1 \in S
    OBVIOUS
  <2>1. PICK f : f = [x \in 0 .. k |-> IF x = 0 THEN messages ELSE Unwrapped(f[x - 1])]
    OBVIOUS
  <2> DEFINE g == [x \in 0 .. k + 1 |-> IF x = 0 THEN messages ELSE Unwrapped(f[x - 1])]
  <2>2. \A x \in 0 .. k : f[x] = IF x = 0 THEN messages ELSE Unwrapped(f[x - 1])
    BY <2>1
  <2>3. \A x \in 0 .. k + 1 : g[x] = IF x = 0 THEN messages ELSE Unwrapped(f[x - 1])
    OBVIOUS
  <2>4. \A x \in 0 .. k : g[x] = f[x]
    <3>1. \A x \in 0 .. k : x \in 0 .. k + 1
      OBVIOUS
    <3> QED
      BY <2>2, <2>3, <3>1
  <2> HIDE DEF g
  <2>5. \A x \in 0 .. k + 1 : x # 0 => f[x - 1] = g[x - 1]
    <3>1. \A x \in 0 .. k + 1 : x # 0 => x - 1 \in 0 .. k
      OBVIOUS
    <3> QED
      BY <2>4, <3>1
  <2>6. g = [x \in 0 .. k + 1 |-> IF x = 0 THEN messages ELSE Unwrapped(g[x - 1])]
    BY <2>5 DEF g
  <2>7. k + 1 \in Nat
    OBVIOUS
  <2> QED
    BY <2>6, <2>7
<1> HIDE DEF S
<1>3. n \in S
  BY <1>0, <1>1, <1>2, SetInduction
<1> DEFINE level == CHOOSE f : f = [x \in 0 .. n |-> IF x = 0 THEN messages ELSE Unwrapped(f[x - 1])]
<1>4. level = [x \in 0 .. n |-> IF x = 0 THEN messages ELSE Unwrapped(level[x - 1])]
  BY <1>3 DEF S
<1>5. Pending(messages) = NoExchange(LaidOut(level))
  BY DEF Pending, NoExchange, LaidOut, Unwrapped
<1> HIDE DEF level
<1>6. \A x \in 0 .. n : level[x] = IF x = 0 THEN messages ELSE Unwrapped(level[x - 1])
  BY <1>4
<1>7. Nested(level, messages)
  <2>1. 0 \in 0 .. n /\ \A x \in 1 .. n : x \in 0 .. n /\ x # 0
    BY <1>0
  <2> QED
    BY <1>6, <2>1 DEF Nested
<1> QED
  BY <1>5, <1>7

CarriedBy(messages) == UNION {Elements(Carried(m)) : m \in messages}

\* The same for the messages there may be.
LEMMA CopiesLevels ==
    /\ CopiesAt[0] = SentMessages
    /\ \A n \in 1 .. MaxNesting : CopiesAt[n] = CarriedBy(CopiesAt[n - 1])
<1> DEFINE N == MaxNesting
           S == {k \in Nat : \E f : f = [x \in 0 .. k |-> IF x = 0 THEN SentMessages ELSE CarriedBy(f[x - 1])]}
<1>0. N \in Nat
  BY VerificationAssumption
<1>1. 0 \in S
  <2> DEFINE f == [x \in 0 .. 0 |-> SentMessages]
  <2>1. f = [x \in 0 .. 0 |-> IF x = 0 THEN SentMessages ELSE CarriedBy(f[x - 1])]
    OBVIOUS
  <2> HIDE DEF f
  <2> QED
    BY <2>1
<1>2. \A k \in Nat : k \in S => k + 1 \in S
  <2> SUFFICES ASSUME NEW k \in Nat, k \in S PROVE k + 1 \in S
    OBVIOUS
  <2>1. PICK f : f = [x \in 0 .. k |-> IF x = 0 THEN SentMessages ELSE CarriedBy(f[x - 1])]
    OBVIOUS
  <2> DEFINE g == [x \in 0 .. k + 1 |-> IF x = 0 THEN SentMessages ELSE CarriedBy(f[x - 1])]
  <2>2. \A x \in 0 .. k : f[x] = IF x = 0 THEN SentMessages ELSE CarriedBy(f[x - 1])
    BY <2>1
  <2>3. \A x \in 0 .. k + 1 : g[x] = IF x = 0 THEN SentMessages ELSE CarriedBy(f[x - 1])
    OBVIOUS
  <2>4. \A x \in 0 .. k : g[x] = f[x]
    <3>1. \A x \in 0 .. k : x \in 0 .. k + 1
      OBVIOUS
    <3> QED
      BY <2>2, <2>3, <3>1
  <2> HIDE DEF g
  <2>5. \A x \in 0 .. k + 1 : x # 0 => f[x - 1] = g[x - 1]
    <3>1. \A x \in 0 .. k + 1 : x # 0 => x - 1 \in 0 .. k
      OBVIOUS
    <3> QED
      BY <2>4, <3>1
  <2>6. g = [x \in 0 .. k + 1 |-> IF x = 0 THEN SentMessages ELSE CarriedBy(g[x - 1])]
    BY <2>5 DEF g
  <2>7. k + 1 \in Nat
    OBVIOUS
  <2> QED
    BY <2>6, <2>7
<1> HIDE DEF S
<1>3. N \in S
  BY <1>0, <1>1, <1>2, SetInduction
<1> DEFINE copies == CHOOSE f : f = [x \in 0 .. N |-> IF x = 0 THEN SentMessages ELSE CarriedBy(f[x - 1])]
<1>4. copies = [x \in 0 .. N |-> IF x = 0 THEN SentMessages ELSE CarriedBy(copies[x - 1])]
  BY <1>3 DEF S
<1>5. CopiesAt = copies
  BY DEF CopiesAt, SentMessages, CarriedBy
<1> HIDE DEF copies
<1>6. \A x \in 0 .. N : copies[x] = IF x = 0 THEN SentMessages ELSE CarriedBy(copies[x - 1])
  BY <1>4
<1>7. 0 \in 0 .. N /\ \A x \in 1 .. N : x \in 0 .. N /\ x # 0
  BY <1>0
<1> QED
  BY <1>5, <1>6, <1>7

\* The pieces, and what exchanges carry, are lists of messages there may be.
LEMMA SentCopies ==
    /\ \A piece \in Pieces : piece \in Seq(SentMessages)
    /\ \A n \in 0 .. MaxNesting : CopiesAt[n] \subseteq Copies
    /\ \A m \in Copies : Carried(m) \in Seq(Elements(Carried(m)))
    /\ SentMessages \subseteq Copies
<1>1. ASSUME NEW piece \in Pieces PROVE piece \in Seq(SentMessages)
  <2>1. piece \in Seq(Elements(piece)) /\ Elements(piece) \subseteq SentMessages
    BY VerificationAssumption DEF IsSequence, SentMessages
  <2> HIDE DEF SentMessages
  <2> QED
    BY <2>1, SeqDef
<1>2. \A n \in 0 .. MaxNesting : CopiesAt[n] \subseteq Copies
  BY DEF Copies
<1>3. ASSUME NEW m \in Copies PROVE Carried(m) \in Seq(Elements(Carried(m)))
  <2>1. CASE m.body.t = "exn"
    BY <2>1, VerificationAssumption DEF Carried, IsSequence
  <2>2. CASE m.body.t # "exn"
    BY <2>2, EmptySeq DEF Carried
  <2> QED
    BY <2>1, <2>2
<1>4. 0 \in 0 .. MaxNesting
  BY VerificationAssumption
<1> QED
  BY <1>1, <1>2, <1>3, <1>4, CopiesLevels

\* A level is a list of messages that may be carried so deep.
LEMMA UnwrappedIsSequence ==
    ASSUME NEW n \in 1 .. MaxNesting, NEW list \in Seq(CopiesAt[n - 1])
    PROVE Unwrapped(list) \in Seq(CopiesAt[n])
<1> DEFINE carried == [x \in DOMAIN list |-> Carried(list[x])]
<1>1. Len(list) \in Nat /\ DOMAIN list = 1 .. Len(list)
  BY LenProperties
<1>2. n - 1 \in 0 .. MaxNesting
  BY VerificationAssumption
<1>3. ASSUME NEW x \in 1 .. Len(list) PROVE carried[x] \in Seq(CopiesAt[n])
  <2>1. PICK m \in CopiesAt[n - 1] : m = list[x]
    BY <1>1, ElementOfSeq
  <2>2. carried[x] = Carried(m)
    BY <1>1, <2>1
  <2>3. Carried(m) \in Seq(Elements(Carried(m)))
    BY <1>2, SentCopies
  <2>4. Elements(Carried(m)) \subseteq CopiesAt[n]
    BY CopiesLevels DEF CarriedBy
  <2> QED
    BY <2>2, <2>3, <2>4, SeqDef
<1>4. carried \in [1 .. Len(list) -> Seq(CopiesAt[n])]
  BY <1>1, <1>3
<1> HIDE DEF carried
<1>5. carried \in Seq(Seq(CopiesAt[n]))
  BY <1>1, <1>4, SeqDef
<1> QED
  BY <1>5, FlattenIsSequence DEF Unwrapped, carried

LEMMA LevelsAreSequences ==
    ASSUME NEW messages \in Seq(SentMessages), NEW level, Nested(level, messages)
    PROVE \A n \in 0 .. MaxNesting : level[n] \in Seq(CopiesAt[n])
<1> DEFINE S == {n \in Nat : n <= MaxNesting => level[n] \in Seq(CopiesAt[n])}
<1>1. 0 \in S
  BY CopiesLevels DEF Nested
<1>2. \A n \in Nat : n \in S => n + 1 \in S
  <2> SUFFICES ASSUME NEW n \in Nat, n \in S, n + 1 <= MaxNesting PROVE level[n + 1] \in Seq(CopiesAt[n + 1])
    OBVIOUS
  <2>1. PICK k \in 1 .. MaxNesting : k = n + 1 /\ k - 1 = n
    BY VerificationAssumption
  <2>2. level[k - 1] \in Seq(CopiesAt[k - 1]) /\ level[k] = Unwrapped(level[k - 1])
    <3>1. level[n] \in Seq(CopiesAt[n])
      BY <2>1, VerificationAssumption
    <3> QED
      BY <2>1, <3>1 DEF Nested
  <2> QED
    BY <2>1, <2>2, UnwrappedIsSequence
<1> HIDE DEF S
<1>3. Nat \subseteq S
  BY <1>1, <1>2, SetInduction
<1> QED
  BY <1>3, VerificationAssumption DEF S

\* Every message of the levels is a copy.
LEMMA LaidOutIsSequence ==
    ASSUME NEW messages \in Seq(SentMessages), NEW level, Nested(level, messages)
    PROVE LET levels == [n \in 1 .. MaxNesting + 1 |-> level[n - 1]] IN
          /\ levels \in Seq(Seq(Copies)) /\ DOMAIN levels = 1 .. MaxNesting + 1
          /\ LaidOut(level) = FlattenSeq(levels)
          /\ LaidOut(level) \in Seq(Copies)
<1> DEFINE levels == [n \in 1 .. MaxNesting + 1 |-> level[n - 1]]
<1>1. ASSUME NEW n \in 1 .. MaxNesting + 1 PROVE level[n - 1] \in Seq(Copies)
  <2>1. PICK k \in 0 .. MaxNesting : k = n - 1
    BY VerificationAssumption
  <2>2. level[k] \in Seq(CopiesAt[k]) /\ CopiesAt[k] \subseteq Copies
    BY LevelsAreSequences, SentCopies
  <2> QED
    BY <2>1, <2>2, SeqDef
<1>2. levels \in [1 .. MaxNesting + 1 -> Seq(Copies)] /\ MaxNesting + 1 \in Nat
  BY <1>1, VerificationAssumption
<1>3. DOMAIN levels = 1 .. MaxNesting + 1
  OBVIOUS
<1>4. LaidOut(level) = FlattenSeq(levels)
  BY DEF LaidOut
<1> HIDE DEF levels
<1>5. levels \in Seq(Seq(Copies))
  BY <1>2, SeqDef
<1>6. LaidOut(level) \in Seq(Copies)
  BY <1>4, <1>5, FlattenIsSequence
<1> QED
  BY <1>3, <1>4, <1>5, <1>6 DEF levels

\* Everything flatten looks at is a copy.
LEMMA PendingIsSequence ==
    ASSUME NEW messages \in Seq(SentMessages)
    PROVE Pending(messages) \in Seq(Copies)
<1>1. PICK level : Nested(level, messages) /\ Pending(messages) = NoExchange(LaidOut(level))
  BY PendingLevels
<1>2. PICK all \in Seq(Copies) : all = LaidOut(level)
  BY <1>1, LaidOutIsSequence
<1>3. PICK I \in SUBSET (DOMAIN all) : I = {x \in DOMAIN all : all[x].body.t # "exn"}
  OBVIOUS
<1>4. Selected(all, I) \in Seq(Copies)
  BY SelectedMembers
<1> QED
  BY <1>1, <1>2, <1>3, <1>4 DEF NoExchange

\* An index is a list with one message for a SAID, and the edges of a credential are one.
Indexed(idx) ==
    /\ idx \in Seq(Elements(idx))
    /\ \A m, o \in Elements(idx) : m.body.d = o.body.d => m = o
    /\ \A m \in Elements(idx) : m.body.t = "acdc" => m.body.e \in Seq(Elements(m.body.e))

\* The copies of a message are merged into one.
LEMMA FlattenIndexed ==
    ASSUME NEW messages \in Seq(SentMessages)
    PROVE Indexed(Flatten(messages))
<1> DEFINE pending == Pending(messages)
           same(d) == {z \in DOMAIN pending : pending[z].body.d = d}
           new == {z \in DOMAIN pending : \A y \in 1 .. z - 1 : pending[y].body.d # pending[z].body.d}
           firsts == Selected(pending, new)
           merged == [n \in DOMAIN firsts |-> Merge(Selected(pending, same(firsts[n].body.d)))]
<1>1. Flatten(messages) = merged
  BY DEF Flatten
<1>2. pending \in Seq(Copies)
  BY PendingIsSequence
<1> HIDE DEF pending
<1>3. /\ new \in SUBSET (DOMAIN pending) /\ \A d : same(d) \in SUBSET (DOMAIN pending)
      /\ Len(pending) \in Nat /\ DOMAIN pending = 1 .. Len(pending)
  BY <1>2, LenProperties
<1> HIDE DEF new
<1>4. /\ DOMAIN firsts = 1 .. Cardinality(new)
      /\ \A n \in DOMAIN firsts : \E z \in new : firsts[n] = pending[z]
  BY <1>2, <1>3, SelectedMembers
<1>5. Cardinality(new) \in Nat
  <2>1. Cardinality(new) \in 0 .. Len(pending)
    BY <1>3, Counted
  <2> QED
    BY <1>3, <2>1
<1>6. ASSUME NEW d, same(d) # {}
      PROVE /\ Merge(Selected(pending, same(d))).body \in {m.body : m \in Copies}
            /\ Merge(Selected(pending, same(d))).body.d = d
  <2> DEFINE copies == Selected(pending, same(d))
  <2>1. /\ DOMAIN copies = 1 .. Cardinality(same(d)) /\ copies \in Seq(Copies) /\ copies # <<>>
        /\ \A n \in DOMAIN copies : \E z \in same(d) : copies[n] = pending[z]
    <3>1. same(d) \in SUBSET (DOMAIN pending)
      BY <1>3
    <3> HIDE DEF same
    <3> QED
      BY <1>2, <1>6, <3>1, SelectedMembers
  <2>2. \A n \in DOMAIN copies : copies[n].body.d = d
    BY <2>1
  <2> HIDE DEF copies, same
  <2>3. 1 \in DOMAIN copies
    <3>1. copies \in Seq(Copies) /\ copies # <<>>
      BY <2>1
    <3>2. Len(copies) \in Nat /\ DOMAIN copies = 1 .. Len(copies)
      BY <3>1, LenProperties
    <3>3. Len(copies) # 0
      BY <3>1, EmptySeq
    <3> QED
      BY <3>2, <3>3
  <2>4. copies[1] \in Copies
    BY <2>1, <2>3, ElementOfSeq, LenProperties
  <2>5. Merge(copies).body = copies[1].body
    BY DEF Merge
  <2> QED
    BY <2>2, <2>3, <2>4, <2>5 DEF copies
<1>7. \A n \in DOMAIN firsts : same(firsts[n].body.d) # {}
  BY <1>3, <1>4
<1> HIDE DEF firsts, same
<1>8. \A n \in DOMAIN merged : /\ merged[n].body \in {m.body : m \in Copies}
                               /\ merged[n].body.d = firsts[n].body.d
  BY <1>6, <1>7
<1>9. \A n, o \in DOMAIN merged : merged[n].body.d = merged[o].body.d => merged[n] = merged[o]
  <2> SUFFICES ASSUME NEW n \in DOMAIN merged, NEW o \in DOMAIN merged, merged[n].body.d = merged[o].body.d
               PROVE merged[n] = merged[o]
    OBVIOUS
  <2>1. firsts[n].body.d = firsts[o].body.d
    BY <1>8
  <2> QED
    BY <2>1
<1>10. merged \in [1 .. Cardinality(new) -> Elements(merged)]
  <2>1. DOMAIN merged = 1 .. Cardinality(new) /\ merged = [n \in DOMAIN merged |-> merged[n]]
    BY <1>4
  <2> HIDE DEF merged
  <2> QED
    BY <2>1 DEF Elements
<1> HIDE DEF merged
<1>11. merged \in Seq(Elements(merged))
  BY <1>5, <1>10, SeqDef
<1>12. \A m \in Elements(merged) : m.body \in {o.body : o \in Copies}
  BY <1>8 DEF Elements
<1>13. \A m \in Elements(merged) : m.body.t = "acdc" => m.body.e \in Seq(Elements(m.body.e))
  BY <1>12, VerificationAssumption DEF IsSequence
<1>14. \A m, o \in Elements(merged) : m.body.d = o.body.d => m = o
  BY <1>9 DEF Elements
<1> QED
  BY <1>1, <1>11, <1>13, <1>14 DEF Indexed

\* What collect makes of the pieces.
LEMMA CollectedIndexed ==
    ASSUME pieces \in Seq(Pieces)
    PROVE Indexed(Flatten(FlattenSeq(pieces)))
<1>1. pieces \in Seq(Seq(SentMessages))
  BY SentCopies, SeqDef
<1>2. FlattenSeq(pieces) \in Seq(SentMessages)
  BY <1>1, FlattenIsSequence
<1> QED
  BY <1>2, FlattenIndexed

\* The credentials of an index: one for a SAID, the one CredentialOf takes.
LEMMA CredentialsIndexed ==
    ASSUME NEW idx, Indexed(idx)
    PROVE /\ Credentials(idx) \in Seq(Elements(idx))
          /\ \A m \in Elements(Credentials(idx)) : m \in Elements(idx) /\ m.body.t = "acdc"
          /\ \A said \in Saids(idx) : CredentialOf(idx, said) \in Elements(Credentials(idx))
          /\ \A m \in Elements(Credentials(idx)) : m.body.d \in Saids(idx) /\ CredentialOf(idx, m.body.d) = m
          /\ \A said \in Saids(idx) : CredentialOf(idx, said).body.d = said
<1> DEFINE I == {x \in DOMAIN idx : idx[x].body.t = "acdc"}
<1>1. I \in SUBSET (DOMAIN idx) /\ idx \in Seq(Elements(idx))
  BY DEF Indexed
<1>2. \A x \in I : idx[x] \in Elements(idx) /\ idx[x].body.t = "acdc"
  BY DEF Elements
<1>3. Credentials(idx) = Selected(idx, I)
  BY DEF Credentials
<1> HIDE DEF I
<1>4. Credentials(idx) \in Seq(Elements(idx)) /\ Elements(Credentials(idx)) = {idx[x] : x \in I}
  BY <1>1, <1>3, SelectedMembers
<1>5. \A m \in Elements(Credentials(idx)) : m \in Elements(idx) /\ m.body.t = "acdc"
  BY <1>2, <1>4
<1>6. \A said \in Saids(idx) : /\ CredentialOf(idx, said) \in Elements(Credentials(idx))
                               /\ CredentialOf(idx, said).body.d = said
  BY DEF Saids, CredentialOf
<1>7. \A m \in Elements(Credentials(idx)) : m.body.d \in Saids(idx)
  BY DEF Saids
<1>8. \A m \in Elements(Credentials(idx)) : CredentialOf(idx, m.body.d) = m
  BY <1>5, <1>6, <1>7 DEF Indexed
<1> QED
  BY <1>4, <1>5, <1>6, <1>7, <1>8

-----------------------------------------------------------------------------
(* What credentials lead to. *)

\* The edges of a credential lead to their targets, and nothing else leads anywhere.
LEMMA TargetsOf ==
    ASSUME Indexed(index)
    PROVE /\ \A said \in Saids(index) :
                Targets(index, said) = {ref.n : ref \in Elements(CredentialOf(index, said).body.e)}
          /\ \A said : said \notin Saids(index) => Targets(index, said) = {}
<1> DEFINE named(said) == {o \in Elements(Credentials(index)) : o.body.d = said}
           refs(m) == {ref.n : ref \in Elements(m.body.e)}
<1>1. \A said : Targets(index, said) = UNION {refs(m) : m \in named(said)}
  BY DEF Targets
<1>2. \A said \in Saids(index) : named(said) = {CredentialOf(index, said)}
  <2> TAKE said \in Saids(index)
  <2>1. CredentialOf(index, said) \in named(said)
    BY CredentialsIndexed
  <2>2. \A m \in named(said) : m = CredentialOf(index, said)
    BY CredentialsIndexed
  <2> QED
    BY <2>1, <2>2
<1>3. \A said : said \notin Saids(index) => named(said) = {}
  BY CredentialsIndexed
<1> HIDE DEF named, refs
<1>4. \A said \in Saids(index) : Targets(index, said) = refs(CredentialOf(index, said))
  BY <1>1, <1>2
<1>5. \A said : said \notin Saids(index) => Targets(index, said) = {}
  BY <1>1, <1>3
<1> QED
  BY <1>4, <1>5 DEF refs

\* LedTo is closed, and nothing smaller that has the targets is.
LEMMA LedToClosed ==
    ASSUME Indexed(index), NEW said
    PROVE /\ Targets(index, said) \subseteq LedTo(index, said)
          /\ \A m \in LedTo(index, said) : Targets(index, m) \subseteq LedTo(index, said)
          /\ \A reached : /\ Targets(index, said) \subseteq reached
                          /\ \A m \in reached : Targets(index, m) \subseteq reached
                          => LedTo(index, said) \subseteq reached
<1> DEFINE all == UNION {Targets(index, m) : m \in Saids(index)}
           Closed2(reached) == /\ Targets(index, said) \subseteq reached
                               /\ \A m \in reached : Targets(index, m) \subseteq reached
<1>1. \A m : Targets(index, m) \subseteq all
  <2> TAKE m
  <2>1. CASE m \in Saids(index)
    BY <2>1
  <2>2. CASE m \notin Saids(index)
    BY <2>2, TargetsOf
  <2> QED
    BY <2>1, <2>2
<1>2. LedTo(index, said) = {n \in all : \A reached \in SUBSET all : Closed2(reached) => n \in reached}
  BY DEF LedTo
<1> HIDE DEF all
<1>3. Targets(index, said) \subseteq LedTo(index, said)
  BY <1>1, <1>2
<1>4. \A m \in LedTo(index, said) : Targets(index, m) \subseteq LedTo(index, said)
  <2> TAKE m \in LedTo(index, said)
  <2>1. \A reached \in SUBSET all : Closed2(reached) => Targets(index, m) \subseteq reached
    BY <1>2
  <2> QED
    BY <1>1, <1>2, <2>1
<1>5. ASSUME NEW reached, Closed2(reached) PROVE LedTo(index, said) \subseteq reached
  <2>1. reached \cap all \in SUBSET all /\ Closed2(reached \cap all)
    BY <1>1, <1>5
  <2> HIDE DEF Closed2
  <2> QED
    BY <1>2, <2>1
<1> QED
  BY <1>3, <1>4, <1>5

\* One step and then the rest of the way.
LEMMA LedToStep ==
    ASSUME Indexed(index), NEW said
    PROVE /\ \A m \in LedTo(index, said) : LedTo(index, m) \subseteq LedTo(index, said)
          /\ \A n : n \in LedTo(index, said) <=> \E m \in Targets(index, said) : n = m \/ n \in LedTo(index, m)
<1>1. ASSUME NEW m \in LedTo(index, said) PROVE LedTo(index, m) \subseteq LedTo(index, said)
  BY LedToClosed
<1> DEFINE within == {n \in LedTo(index, said) : \E m \in Targets(index, said) : n = m \/ n \in LedTo(index, m)}
<1>2. Targets(index, said) \subseteq within
  BY LedToClosed
<1>3. ASSUME NEW n \in within PROVE Targets(index, n) \subseteq within
  <2>1. PICK m \in Targets(index, said) : n = m \/ n \in LedTo(index, m)
    OBVIOUS
  <2>2. Targets(index, n) \subseteq LedTo(index, m)
    BY <2>1, LedToClosed
  <2>3. Targets(index, n) \subseteq LedTo(index, said)
    BY LedToClosed
  <2> QED
    BY <2>1, <2>2, <2>3
<1>4. LedTo(index, said) \subseteq within
  <2> HIDE DEF within
  <2> QED
    BY <1>2, <1>3, LedToClosed
<1>5. \A n : n \in LedTo(index, said) => \E m \in Targets(index, said) : n = m \/ n \in LedTo(index, m)
  BY <1>4
<1>6. \A n : \A m \in Targets(index, said) : n = m \/ n \in LedTo(index, m) => n \in LedTo(index, said)
  BY <1>1, LedToClosed
<1> QED
  BY <1>1, <1>5, <1>6

-----------------------------------------------------------------------------
(* What a credential is founded on. *)

\* The credential of this SAID holds by itself and is not on a circle.
Stands(n) ==
    /\ \E m \in Elements(Credentials(index)) : m.body.d = n /\ HoldsAlone(m)
    /\ n \notin LedTo(index, n)

Founded(said) == \A n \in {said} \cup LedTo(index, said) : Stands(n)

\* An edge is sound when it would be found so with every target verified first.
Sound(ref) ==
    /\ ref.n \in Saids(index)
    /\ ref.s # Null => CredentialOf(index, ref.n).body.schema = ref.s
    /\ RevocationOf(index, CredentialOf(index, ref.n).body) = {}
    /\ Founded(ref.n)

\* A credential is founded when its own checks pass and its edges are sound: that no
\* edge leads back to it follows.
LEMMA FoundedStep ==
    ASSUME Indexed(index), NEW said \in Saids(index)
    PROVE LET m == CredentialOf(index, said) IN
          Founded(said) <=> /\ Clean(Checks(index, LogOf(m.body.i), m))
                            /\ \A x \in DOMAIN m.body.e : Sound(m.body.e[x])
<1> DEFINE m == CredentialOf(index, said)
           clean == Clean(Checks(index, LogOf(m.body.i), m))
           found(ref) == /\ ref.n \in Saids(index)
                         /\ ref.s # Null => CredentialOf(index, ref.n).body.schema = ref.s
                         /\ RevocationOf(index, CredentialOf(index, ref.n).body) = {}
<1>1. /\ m \in Elements(Credentials(index)) /\ m.body.d = said
      /\ \A o \in Elements(Credentials(index)) : o.body.d = said => o = m
  BY CredentialsIndexed
<1>2. Targets(index, said) = {m.body.e[x].n : x \in DOMAIN m.body.e}
  <2>1. Targets(index, said) = {ref.n : ref \in Elements(m.body.e)}
    BY TargetsOf
  <2> QED
    BY <2>1 DEF Elements
<1>3. ASSUME NEW ref
      PROVE found(ref) <=> \E target \in Elements(Credentials(index)) :
                             /\ target.body.d = ref.n
                             /\ ref.s # Null => target.body.schema = ref.s
                             /\ RevocationOf(index, target.body) = {}
  <2>1. ASSUME NEW target \in Elements(Credentials(index)), target.body.d = ref.n
        PROVE ref.n \in Saids(index) /\ target = CredentialOf(index, ref.n)
    BY <2>1, CredentialsIndexed
  <2>2. ref.n \in Saids(index) => /\ CredentialOf(index, ref.n) \in Elements(Credentials(index))
                                  /\ CredentialOf(index, ref.n).body.d = ref.n
    BY CredentialsIndexed
  <2> QED
    BY <2>1, <2>2
<1>4. HoldsAlone(m) <=> clean /\ \A x \in DOMAIN m.body.e : found(m.body.e[x])
  <2> HIDE DEF found, m
  <2>1. HoldsAlone(m) <=> /\ Clean(Checks(index, LogOf(m.body.i), m))
                          /\ \A x \in DOMAIN m.body.e : \E target \in Elements(Credentials(index)) :
                                /\ target.body.d = m.body.e[x].n
                                /\ m.body.e[x].s # Null => target.body.schema = m.body.e[x].s
                                /\ RevocationOf(index, target.body) = {}
    BY DEF HoldsAlone
  <2> QED
    BY <1>3, <2>1
<1>5. \A ref : Sound(ref) <=> found(ref) /\ Founded(ref.n)
  BY DEF Sound
<1>6. Stands(said) <=> HoldsAlone(m) /\ said \notin LedTo(index, said)
  <2> HIDE DEF m
  <2> QED
    BY <1>1 DEF Stands
<1> HIDE DEF m, clean, found
<1>7. Founded(said) => HoldsAlone(m) /\ \A t \in Targets(index, said) : Founded(t)
  <2> SUFFICES ASSUME Founded(said) PROVE HoldsAlone(m) /\ \A t \in Targets(index, said) : Founded(t)
    OBVIOUS
  <2>1. Stands(said)
    BY DEF Founded
  <2>2. ASSUME NEW t \in Targets(index, said) PROVE Founded(t)
    <3>1. t \in LedTo(index, said) /\ LedTo(index, t) \subseteq LedTo(index, said)
      BY LedToClosed, LedToStep
    <3> QED
      BY <3>1 DEF Founded
  <2> QED
    BY <1>6, <2>1, <2>2
<1>8. HoldsAlone(m) /\ (\A t \in Targets(index, said) : Founded(t)) => Founded(said)
  <2> SUFFICES ASSUME HoldsAlone(m), \A t \in Targets(index, said) : Founded(t) PROVE Founded(said)
    OBVIOUS
  <2>1. \A n \in LedTo(index, said) : Stands(n)
    BY LedToStep DEF Founded
  <2>2. said \notin LedTo(index, said)
    BY <2>1 DEF Stands
  <2> QED
    BY <1>6, <2>1, <2>2 DEF Founded
<1>9. (\A t \in Targets(index, said) : Founded(t)) <=> \A x \in DOMAIN m.body.e : Founded(m.body.e[x].n)
  BY <1>2
<1> QED
  BY <1>4, <1>5, <1>7, <1>8, <1>9 DEF m, clean

\* What leads to itself is not founded.
LEMMA CircleUnfounded ==
    ASSUME NEW n, n \in LedTo(index, n)
    PROVE ~Founded(n)
BY DEF Founded, Stands

-----------------------------------------------------------------------------
(* The inductive invariant. *)

Refs == UNION {Elements(m.body.e) : m \in Elements(Credentials(index))}

Frames == [said : Saids(index), refs : Seq(Refs), failed : BOOLEAN]

\* What verifyEdges has taken from the edges of its credential, and found of them.
EdgesTaken(frame) ==
    LET e == CredentialOf(index, frame.said).body.e IN
    \E k \in 0 .. Len(e) :
        /\ Len(frame.refs) = Len(e) - k
        /\ \A x \in 1 .. Len(frame.refs) : frame.refs[x] = e[x + k]
        /\ frame.failed <=> \E x \in 1 .. k : ~Sound(e[x])

\* A result is what its credential would get with every target verified first.
RightVerdict(said) ==
    LET m == CredentialOf(index, said) IN
    /\ results[said].ok <=> Founded(said)
    /\ results[said].schema = m.body.schema
    /\ results[said].status = "revoked" <=> RevocationOf(index, m.body) # {}

\* Every result is right.
ResultsJudged == \A said \in DOMAIN results : said \in Saids(index) /\ RightVerdict(said)

\* Each call of verifyEdges is for a credential without a result, and for one that
\* the credentials of the calls below it lead to.
StackDescends ==
    /\ stack \in Seq(Frames)
    /\ \A frame \in Elements(stack) : frame.said \notin DOMAIN results /\ EdgesTaken(frame)
    /\ \A x, y \in DOMAIN stack : x < y =>
          /\ stack[y].said # stack[x].said
          /\ stack[y].said \in LedTo(index, stack[x].said)

Phases ==
    /\ pc \in {"collecting", "collected", "verifying", "done"}
    /\ pc \in {"collecting", "collected"} => results = <<>> /\ stack = <<>>
    /\ pc = "done" => Saids(index) \subseteq DOMAIN results

VerifyIInv ==
    /\ Phases
    /\ pieces \in Seq(Pieces)
    /\ Indexed(index)
    /\ ResultsJudged
    /\ StackDescends

\* While the index and the logs stay, so does all that is said of credentials.
LEMMA Steady ==
    ASSUME index' = index, logs' = logs
    PROVE /\ \A said : Founded(said)' = Founded(said)
          /\ \A ref : Sound(ref)' = Sound(ref)
          /\ \A frame : EdgesTaken(frame)' = EdgesTaken(frame)
          /\ Frames' = Frames
          /\ Refs' = Refs
<1>3. \A m : HoldsAlone(m)' = HoldsAlone(m)
  BY DEF HoldsAlone, LogOf
<1>4. \A n : Stands(n)' = Stands(n)
  BY <1>3 DEF Stands
<1>5. \A said : Founded(said)' = Founded(said)
  BY <1>4 DEF Founded
<1>6. \A ref : Sound(ref)' = Sound(ref)
  BY <1>5 DEF Sound
<1>7. \A frame : EdgesTaken(frame)' = EdgesTaken(frame)
  BY <1>6 DEF EdgesTaken
<1>8. Refs' = Refs
  BY DEF Refs
<1>9. Frames' = Frames
  BY <1>8 DEF Frames
<1> QED
  BY <1>5, <1>6, <1>7, <1>8, <1>9

\* The edges of a credential in the index.
LEMMA EdgesAreRefs ==
    ASSUME Indexed(index), NEW said \in Saids(index)
    PROVE CredentialOf(index, said).body.e \in Seq(Refs)
<1> DEFINE m == CredentialOf(index, said)
<1>1. m \in Elements(Credentials(index)) /\ m \in Elements(index) /\ m.body.t = "acdc"
  BY CredentialsIndexed
<1> HIDE DEF m
<1>2. m.body.e \in Seq(Elements(m.body.e))
  BY <1>1 DEF Indexed
<1>3. Elements(m.body.e) \subseteq Refs
  BY <1>1 DEF Refs
<1>4. m.body.e \in Seq(Refs)
  BY <1>2, <1>3, SeqDef
<1> QED
  BY <1>4 DEF m

\* A result that is recorded with the right word about the edges is right.
LEMMA RecordStep ==
    ASSUME Indexed(index), ResultsJudged, index' = index, logs' = logs,
           NEW said \in Saids(index), NEW holds \in BOOLEAN, Record(said, holds),
           holds <=> \A x \in DOMAIN CredentialOf(index, said).body.e : Sound(CredentialOf(index, said).body.e[x])
    PROVE ResultsJudged' /\ DOMAIN results' = DOMAIN results \cup {said}
<1> DEFINE m == CredentialOf(index, said)
           v == Verification(index, LogOf(m.body.i), m, holds)
<1>1. results' = [s \in DOMAIN results \cup {said} |-> IF s = said THEN v ELSE results[s]]
  BY DEF Record
<1>2. Founded(said) <=> Clean(Checks(index, LogOf(m.body.i), m)) /\ holds
  BY FoundedStep
<1>3. v.ok <=> Clean(Checks(index, LogOf(m.body.i), m)) /\ holds
  BY DEF Verification
<1>4. v.schema = m.body.schema
  BY DEF Verification
<1>5. v.status = "revoked" <=> RevocationOf(index, m.body) # {}
  <2>1. v.status = Status(index, m.body, Checks(index, LogOf(m.body.i), m))
    BY DEF Verification
  <2> HIDE DEF v, m
  <2>2. CASE RevocationOf(index, m.body) # {}
    BY <2>1, <2>2 DEF Status
  <2>3. CASE RevocationOf(index, m.body) = {}
    BY <2>1, <2>3 DEF Status
  <2> QED
    BY <2>2, <2>3
<1> HIDE DEF v
<1>6. results'[said] = v /\ \A s \in DOMAIN results \ {said} : results'[s] = results[s]
  BY <1>1
<1>7. DOMAIN results' = DOMAIN results \cup {said}
  BY <1>1
<1>8. ASSUME NEW s \in DOMAIN results \cup {said}
      PROVE /\ s \in Saids(index)
            /\ results'[s].ok <=> Founded(s)
            /\ results'[s].schema = CredentialOf(index, s).body.schema
            /\ results'[s].status = "revoked" <=> RevocationOf(index, CredentialOf(index, s).body) # {}
  <2>1. CASE s = said
    BY <1>2, <1>3, <1>4, <1>5, <1>6, <2>1
  <2>2. CASE s # said
    <3>1. s \in DOMAIN results /\ results'[s] = results[s]
      BY <1>6, <2>2
    <3>2. s \in Saids(index) /\ RightVerdict(s)
      BY <3>1 DEF ResultsJudged
    <3> QED
      BY <3>1, <3>2 DEF RightVerdict
  <2> QED
    BY <2>1, <2>2
<1>9. \A s : Founded(s)' = Founded(s)
  BY Steady
<1> QED
  BY <1>7, <1>8, <1>9 DEF ResultsJudged, RightVerdict

\* A call for a credential that all under way lead to.
LEMMA DescendStep ==
    ASSUME Indexed(index), StackDescends, index' = index, logs' = logs, results' = results,
           NEW said \in Saids(index) \ DOMAIN results, said \notin Visiting,
           \A x \in DOMAIN stack : said \in LedTo(index, stack[x].said),
           stack' = Append(stack, [said |-> said, refs |-> CredentialOf(index, said).body.e, failed |-> FALSE])
    PROVE StackDescends'
<1> DEFINE e == CredentialOf(index, said).body.e
           frame == [said |-> said, refs |-> e, failed |-> FALSE]
<1>1. e \in Seq(Refs)
  BY EdgesAreRefs
<1>2. Len(e) \in Nat /\ DOMAIN e = 1 .. Len(e)
  BY <1>1, LenProperties
<1>3. frame \in Frames /\ frame.said = said
  BY <1>1 DEF Frames
<1>4. EdgesTaken(frame)
  <2>1. 0 \in 0 .. Len(e) /\ Len(e) = Len(e) - 0 /\ \A x \in 1 .. Len(e) : x + 0 = x
    BY <1>2
  <2>2. ~\E x \in 1 .. 0 : ~Sound(e[x])
    OBVIOUS
  <2> QED
    BY <2>1, <2>2 DEF EdgesTaken
<1> HIDE DEF frame
<1>5. stack \in Seq(Frames) /\ stack' = Append(stack, frame)
  BY DEF StackDescends, frame
<1>6. /\ Len(stack) \in Nat /\ DOMAIN stack = 1 .. Len(stack)
      /\ stack' \in Seq(Frames) /\ DOMAIN stack' = 1 .. Len(stack) + 1
      /\ \A x \in DOMAIN stack : stack'[x] = stack[x]
      /\ stack'[Len(stack) + 1] = frame
  BY <1>3, <1>5, AppendProperties, LenProperties
<1>7. ASSUME NEW f \in Elements(stack') PROVE f.said \notin DOMAIN results /\ EdgesTaken(f)
  <2>1. PICK x \in DOMAIN stack' : f = stack'[x]
    BY DEF Elements
  <2>2. CASE x \in DOMAIN stack
    <3>1. f = stack[x] /\ f \in Elements(stack)
      BY <1>6, <2>1, <2>2 DEF Elements
    <3> QED
      BY <3>1 DEF StackDescends
  <2>3. CASE x = Len(stack) + 1
    BY <1>3, <1>4, <1>6, <2>1, <2>3
  <2> QED
    BY <1>6, <2>2, <2>3
<1>8. ASSUME NEW x \in DOMAIN stack', NEW y \in DOMAIN stack', x < y
      PROVE stack'[y].said # stack'[x].said /\ stack'[y].said \in LedTo(index, stack'[x].said)
  <2>1. x \in DOMAIN stack
    BY <1>6, <1>8
  <2>2. CASE y \in DOMAIN stack
    BY <1>6, <1>8, <2>1, <2>2 DEF StackDescends
  <2>3. CASE y = Len(stack) + 1
    <3>1. stack'[y].said = said /\ stack'[x].said = stack[x].said
      BY <1>3, <1>6, <2>1, <2>3
    <3>2. stack[x].said \in Visiting
      BY <2>1 DEF Visiting
    <3> QED
      BY <2>1, <3>1, <3>2
  <2> QED
    BY <1>6, <2>2, <2>3
<1>9. \A f : EdgesTaken(f)' = EdgesTaken(f)
  BY Steady
<1>10. Frames' = Frames
  BY Steady
<1> QED
  BY <1>6, <1>7, <1>8, <1>9, <1>10 DEF StackDescends

\* The credential at the top of the stack: all calls below lead to it.
LEMMA TopOfStack ==
    ASSUME StackDescends, stack # <<>>
    PROVE /\ Len(stack) \in Nat \ {0} /\ DOMAIN stack = 1 .. Len(stack)
          /\ Top \in Frames /\ Top \in Elements(stack) /\ Top = stack[Len(stack)]
          /\ \A x \in DOMAIN stack : x # Len(stack) =>
                /\ stack[x].said # Top.said
                /\ Top.said \in LedTo(index, stack[x].said)
<1>1. Len(stack) \in Nat \ {0} /\ DOMAIN stack = 1 .. Len(stack)
  BY EmptySeq, LenProperties DEF StackDescends
<1>2. Len(stack) \in DOMAIN stack /\ \A x \in DOMAIN stack : x # Len(stack) => x < Len(stack)
  BY <1>1
<1>3. Top = stack[Len(stack)]
  BY DEF Top
<1>4. Top \in Elements(stack) /\ Top \in Frames
  BY <1>1, <1>2, <1>3, ElementOfSeq DEF StackDescends, Elements
<1>5. ASSUME NEW x \in DOMAIN stack, x # Len(stack)
      PROVE stack[x].said # Top.said /\ Top.said \in LedTo(index, stack[x].said)
  BY <1>2, <1>3, <1>5 DEF StackDescends
<1> QED
  BY <1>1, <1>3, <1>4, <1>5

\* What the edge at the top leads to, all calls under way lead to.
LEMMA EdgeAtTop ==
    ASSUME Indexed(index), StackDescends, AtEdge
    PROVE /\ Top.said \in Saids(index)
          /\ \E k \in Nat : /\ k + 1 \in DOMAIN CredentialOf(index, Top.said).body.e
                            /\ Head(Top.refs) = CredentialOf(index, Top.said).body.e[k + 1]
          /\ \A x \in DOMAIN stack : Head(Top.refs).n \in LedTo(index, stack[x].said)
<1> DEFINE e == CredentialOf(index, Top.said).body.e
<1>1. stack # <<>> /\ Top.refs # <<>>
  BY DEF AtEdge
<1>2. /\ Len(stack) \in Nat \ {0} /\ DOMAIN stack = 1 .. Len(stack)
      /\ Top \in Frames /\ Top \in Elements(stack) /\ Top = stack[Len(stack)]
      /\ \A x \in DOMAIN stack : x # Len(stack) =>
            /\ stack[x].said # Top.said
            /\ Top.said \in LedTo(index, stack[x].said)
  BY <1>1, TopOfStack
<1>3. PICK top \in Frames : top = Top
  BY <1>2
<1>4. top.said \in Saids(index) /\ top.refs \in Seq(Refs)
  BY DEF Frames
<1>5. EdgesTaken(top)
  BY <1>2, <1>3 DEF StackDescends
<1>6. e \in Seq(Refs)
  BY <1>3, <1>4, EdgesAreRefs
<1>7. PICK k \in 0 .. Len(e) :
        Len(top.refs) = Len(e) - k /\ \A x \in 1 .. Len(top.refs) : top.refs[x] = e[x + k]
  BY <1>3, <1>5 DEF EdgesTaken
<1> HIDE DEF e
<1>8. Len(top.refs) \in Nat \ {0} /\ Len(e) \in Nat /\ DOMAIN e = 1 .. Len(e)
  BY <1>1, <1>3, <1>4, <1>6, EmptySeq, LenProperties
<1>9. 1 \in 1 .. Len(top.refs) /\ k + 1 \in DOMAIN e /\ 1 + k = k + 1 /\ k \in Nat
  <2>1. Len(top.refs) = Len(e) - k
    BY <1>7
  <2>2. \A l, n \in Nat : \A j \in 0 .. n :
          l = n - j /\ l # 0 => 1 \in 1 .. l /\ j + 1 \in 1 .. n /\ 1 + j = j + 1 /\ j \in Nat
    OBVIOUS
  <2> QED
    BY <1>8, <2>1, <2>2
<1>10. Head(top.refs) = top.refs[1]
  BY <1>4
<1>11. Head(top.refs) = e[k + 1]
  BY <1>7, <1>9, <1>10
<1>12. Head(top.refs).n \in Targets(index, top.said)
  <2>1. e[k + 1] \in Elements(e)
    BY <1>9 DEF Elements
  <2>2. Targets(index, top.said) = {ref.n : ref \in Elements(e)}
    BY <1>3, <1>4, TargetsOf DEF e
  <2> QED
    BY <1>11, <2>1, <2>2
<1>13. ASSUME NEW x \in DOMAIN stack PROVE Head(Top.refs).n \in LedTo(index, stack[x].said)
  <2>1. Head(Top.refs).n \in LedTo(index, Top.said)
    BY <1>3, <1>12, LedToClosed
  <2>2. CASE x = Len(stack)
    BY <1>2, <2>1, <2>2
  <2>3. CASE x # Len(stack)
    BY <1>2, <1>3, <1>12, <2>3, LedToClosed
  <2> QED
    BY <2>2, <2>3
<1> QED
  BY <1>3, <1>4, <1>9, <1>11, <1>13 DEF e

\* An edge is taken, with the word it deserves.
LEMMA NextEdgeStep ==
    ASSUME VerifyIInv, AtEdge, NEW holds \in BOOLEAN, NextEdge(holds), holds <=> Sound(Head(Top.refs))
    PROVE VerifyIInv'
<1>1. stack # <<>> /\ Top.refs # <<>> /\ pc = "verifying"
  BY DEF AtEdge
<1>2. Indexed(index) /\ StackDescends /\ ResultsJudged /\ Phases
  BY DEF VerifyIInv
<1>3. /\ Len(stack) \in Nat \ {0} /\ DOMAIN stack = 1 .. Len(stack)
      /\ Top \in Frames /\ Top \in Elements(stack) /\ Top = stack[Len(stack)]
  BY <1>1, <1>2, TopOfStack
<1>4. /\ stack' = [stack EXCEPT ![Len(stack)] =
                      [said |-> Top.said, refs |-> Tail(Top.refs), failed |-> Top.failed \/ ~holds]]
      /\ pieces' = pieces /\ pc' = pc /\ index' = index /\ logs' = logs /\ results' = results
  BY DEF NextEdge
<1>5. PICK top \in Frames : top = Top
  BY <1>3
<1>6. top.said \in Saids(index) /\ top.refs \in Seq(Refs) /\ top.failed \in BOOLEAN
  BY DEF Frames
<1> DEFINE new == [said |-> top.said, refs |-> Tail(top.refs), failed |-> top.failed \/ ~holds]
           e == CredentialOf(index, top.said).body.e
<1>7. Tail(top.refs) \in Seq(Refs) /\ Len(Tail(top.refs)) = Len(top.refs) - 1
      /\ \A x \in 1 .. Len(Tail(top.refs)) : Tail(top.refs)[x] = top.refs[x + 1]
  BY <1>1, <1>5, <1>6, HeadTailProperties
<1>8. new \in Frames
  BY <1>6, <1>7 DEF Frames
<1>9. stack' = [stack EXCEPT ![Len(stack)] = new]
  BY <1>4, <1>5
<1>10. EdgesTaken(new)
  <2>1. EdgesTaken(top)
    BY <1>2, <1>3, <1>5 DEF StackDescends
  <2>2. PICK k \in 0 .. Len(e) :
          /\ Len(top.refs) = Len(e) - k
          /\ \A x \in 1 .. Len(top.refs) : top.refs[x] = e[x + k]
          /\ top.failed <=> \E x \in 1 .. k : ~Sound(e[x])
    BY <2>1 DEF EdgesTaken
  <2> HIDE DEF e
  <2>3. Len(top.refs) \in Nat \ {0} /\ Len(e) \in Nat
    <3>1. e \in Seq(Refs)
      BY <1>2, <1>6, EdgesAreRefs DEF e
    <3> QED
      BY <1>1, <1>5, <1>6, <3>1, EmptySeq, LenProperties
  <2>4. k + 1 \in 0 .. Len(e) /\ Len(Tail(top.refs)) = Len(e) - (k + 1)
    BY <1>7, <2>2, <2>3
  <2>5. \A x \in 1 .. Len(Tail(top.refs)) : Tail(top.refs)[x] = e[x + (k + 1)]
    <3> TAKE x \in 1 .. Len(Tail(top.refs))
    <3>1. x + 1 \in 1 .. Len(top.refs) /\ (x + 1) + k = x + (k + 1)
      BY <1>7, <2>2, <2>3
    <3> QED
      BY <1>7, <2>2, <3>1
  <2>6. Head(top.refs) = e[k + 1]
    <3>1. 1 \in 1 .. Len(top.refs) /\ 1 + k = k + 1
      BY <2>2, <2>3
    <3> QED
      BY <1>6, <2>2, <3>1
  <2>7. (\E x \in 1 .. k + 1 : ~Sound(e[x])) <=> (\E x \in 1 .. k : ~Sound(e[x])) \/ ~Sound(e[k + 1])
    <3>1. \A x : x \in 1 .. k + 1 <=> x \in 1 .. k \/ x = k + 1
      BY <2>2, <2>3
    <3> QED
      BY <3>1
  <2>8. top.failed \/ ~holds <=> \E x \in 1 .. k + 1 : ~Sound(e[x])
    BY <1>5, <2>2, <2>6, <2>7
  <2> QED
    BY <2>4, <2>5, <2>8 DEF EdgesTaken, e
<1> HIDE DEF new
<1>11. new.said = top.said
  BY DEF new
<1>12. /\ stack' \in Seq(Frames) /\ DOMAIN stack' = DOMAIN stack
       /\ stack'[Len(stack)] = new
       /\ \A x \in DOMAIN stack : x # Len(stack) => stack'[x] = stack[x]
  <2>1. stack \in Seq(Frames)
    BY <1>2 DEF StackDescends
  <2> QED
    BY <1>3, <1>8, <1>9, <2>1, ExceptSeq
<1>13. \A x \in DOMAIN stack : stack'[x].said = stack[x].said
  BY <1>3, <1>5, <1>11, <1>12
<1>14. ASSUME NEW f \in Elements(stack') PROVE f.said \notin DOMAIN results /\ EdgesTaken(f)
  <2>1. PICK x \in DOMAIN stack : f = stack'[x]
    BY <1>12 DEF Elements
  <2>2. CASE x = Len(stack)
    BY <1>2, <1>3, <1>5, <1>10, <1>11, <1>12, <2>1, <2>2 DEF StackDescends
  <2>3. CASE x # Len(stack)
    <3>1. f \in Elements(stack)
      BY <1>12, <2>1, <2>3 DEF Elements
    <3> QED
      BY <1>2, <3>1 DEF StackDescends
  <2> QED
    BY <2>2, <2>3
<1>15. \A x, y \in DOMAIN stack : x < y =>
         stack'[y].said # stack'[x].said /\ stack'[y].said \in LedTo(index, stack'[x].said)
  BY <1>2, <1>13 DEF StackDescends
<1>16. /\ \A f : EdgesTaken(f)' = EdgesTaken(f)
       /\ Frames' = Frames
       /\ \A said : Founded(said)' = Founded(said)
  BY <1>4, Steady
<1>17. StackDescends'
  BY <1>4, <1>12, <1>14, <1>15, <1>16 DEF StackDescends
<1>18. ResultsJudged'
  BY <1>2, <1>4, <1>16 DEF ResultsJudged, RightVerdict
<1>19. Phases'
  BY <1>1, <1>4 DEF Phases
<1> QED
  BY <1>2, <1>4, <1>17, <1>18, <1>19 DEF VerifyIInv

\* verify of a credential that all calls under way lead to.
LEMMA ResolveStep ==
    ASSUME VerifyIInv, pc = "verifying", NEW said \in Saids(index) \ DOMAIN results, said \notin Visiting,
           \A x \in DOMAIN stack : said \in LedTo(index, stack[x].said),
           Resolve(said), UNCHANGED <<pieces, pc, index, logs>>
    PROVE VerifyIInv'
<1> DEFINE e == CredentialOf(index, said).body.e
<1>1. Indexed(index) /\ StackDescends /\ ResultsJudged /\ Phases /\ pieces \in Seq(Pieces)
  BY DEF VerifyIInv
<1>2. /\ \A f : EdgesTaken(f)' = EdgesTaken(f)
      /\ Frames' = Frames
      /\ \A s : Founded(s)' = Founded(s)
  BY Steady
<1>3. CASE e = <<>> /\ Record(said, TRUE) /\ stack' = stack
  <2>1. DOMAIN e = {}
    BY <1>3
  <2>2. ResultsJudged' /\ DOMAIN results' = DOMAIN results \cup {said}
    <3>1. TRUE <=> \A x \in DOMAIN e : Sound(e[x])
      BY <2>1
    <3> QED
      BY <1>1, <1>3, <3>1, RecordStep
  <2>3. \A f \in Elements(stack) : f.said # said
    BY DEF Elements, Visiting
  <2>4. StackDescends'
    BY <1>1, <1>2, <1>3, <2>2, <2>3 DEF StackDescends
  <2> QED
    BY <1>1, <2>2, <2>4 DEF VerifyIInv, Phases
<1>4. CASE /\ stack' = Append(stack, [said |-> said, refs |-> e, failed |-> FALSE])
           /\ results' = results
  <2>1. StackDescends'
    BY <1>1, <1>4, DescendStep
  <2>2. ResultsJudged'
    BY <1>1, <1>2, <1>4 DEF ResultsJudged, RightVerdict
  <2> QED
    BY <1>1, <1>4, <2>1, <2>2 DEF VerifyIInv, Phases
<1> QED
  BY <1>3, <1>4 DEF Resolve

\* Verification begins with a credential that has no result.
LEMMA NextCredentialStep ==
    ASSUME VerifyIInv, NextCredential
    PROVE VerifyIInv'
<1>1. PICK x \in DOMAIN Credentials(index) :
        /\ Credentials(index)[x].body.d \notin DOMAIN results
        /\ Resolve(Credentials(index)[x].body.d)
  BY DEF NextCredential
<1>2. PICK said : said = Credentials(index)[x].body.d
  OBVIOUS
<1>3. said \in Saids(index)
  BY <1>2 DEF Saids, Elements
<1>4. pc = "verifying" /\ stack = <<>> /\ UNCHANGED <<pieces, pc, index, logs>>
  BY DEF NextCredential
<1>5. DOMAIN stack = {}
  BY <1>4
<1>6. said \notin Visiting /\ \A y \in DOMAIN stack : said \in LedTo(index, stack[y].said)
  BY <1>5 DEF Visiting
<1> QED
  BY <1>1, <1>2, <1>3, <1>4, <1>6, ResolveStep

\* An edge to a credential that is under way is on a circle, and one to a credential
\* that is not there leads nowhere: neither is sound.
LEMMA EdgeIsOpenStep ==
    ASSUME VerifyIInv, EdgeIsOpen
    PROVE VerifyIInv'
<1>1. /\ AtEdge /\ NextEdge(FALSE)
      /\ Head(Top.refs).n \in Visiting \/ Head(Top.refs).n \notin Saids(index)
  BY DEF EdgeIsOpen, OnStack
<1>2. \A x \in DOMAIN stack : Head(Top.refs).n \in LedTo(index, stack[x].said)
  BY <1>1, EdgeAtTop DEF VerifyIInv
<1>3. ~Sound(Head(Top.refs))
  <2>1. CASE Head(Top.refs).n \in Visiting
    <3>1. Head(Top.refs).n \in LedTo(index, Head(Top.refs).n)
      BY <1>2, <2>1 DEF Visiting
    <3> QED
      BY <3>1, CircleUnfounded DEF Sound
  <2>2. CASE Head(Top.refs).n \notin Saids(index)
    BY <2>2 DEF Sound
  <2> QED
    BY <1>1, <2>1, <2>2
<1> QED
  BY <1>1, <1>3, NextEdgeStep

\* The result of the target says whether the edge is sound.
LEMMA EdgeIsResolvedStep ==
    ASSUME VerifyIInv, EdgeIsResolved
    PROVE VerifyIInv'
<1>1. PICK ref : ref = Head(Top.refs)
  OBVIOUS
<1>2. PICK holds : holds = Acceptable(ref, results[ref.n])
  OBVIOUS
<1>3. /\ AtEdge /\ NextEdge(holds)
      /\ ref.n \in DOMAIN results
  BY <1>1, <1>2 DEF EdgeIsResolved
<1>4. holds \in BOOLEAN
  BY <1>2 DEF Acceptable
<1>5. ref.n \in Saids(index) /\ RightVerdict(ref.n)
  BY <1>3 DEF VerifyIInv, ResultsJudged
<1>6. holds <=> /\ ref.s # Null => results[ref.n].schema = ref.s
                /\ results[ref.n].ok
                /\ results[ref.n].status # "revoked"
  BY <1>2 DEF Acceptable
<1>7. holds <=> Sound(ref)
  BY <1>5, <1>6 DEF Sound, RightVerdict
<1> QED
  BY <1>1, <1>3, <1>4, <1>7, NextEdgeStep

\* Verification descends to a target that has no result yet.
LEMMA ResolveEdgeStep ==
    ASSUME VerifyIInv, ResolveEdge
    PROVE VerifyIInv'
<1>1. PICK said : said = Head(Top.refs).n
  OBVIOUS
<1>2. /\ AtEdge /\ pc = "verifying" /\ said \notin Visiting /\ said \in Saids(index) \ DOMAIN results
      /\ Resolve(said) /\ UNCHANGED <<pieces, pc, index, logs>>
  BY <1>1 DEF ResolveEdge, OnStack, AtEdge
<1>3. \A x \in DOMAIN stack : said \in LedTo(index, stack[x].said)
  BY <1>1, <1>2, EdgeAtTop DEF VerifyIInv
<1> QED
  BY <1>2, <1>3, ResolveStep

\* With the last of the edges of a credential taken, what was found is the word on all.
LEMMA EdgesVerifiedStep ==
    ASSUME VerifyIInv, EdgesVerified
    PROVE VerifyIInv'
<1>1. /\ pc = "verifying" /\ stack # <<>> /\ Top.refs = <<>>
      /\ Record(Top.said, ~Top.failed) /\ stack' = Front(stack)
      /\ pieces' = pieces /\ pc' = pc /\ index' = index /\ logs' = logs
  BY DEF EdgesVerified
<1>2. Indexed(index) /\ StackDescends /\ ResultsJudged /\ Phases /\ pieces \in Seq(Pieces)
  BY DEF VerifyIInv
<1>3. /\ Len(stack) \in Nat \ {0} /\ DOMAIN stack = 1 .. Len(stack)
      /\ Top \in Frames /\ Top \in Elements(stack) /\ Top = stack[Len(stack)]
      /\ \A x \in DOMAIN stack : x # Len(stack) => stack[x].said # Top.said
  BY <1>1, <1>2, TopOfStack
<1>4. PICK top \in Frames : top = Top
  BY <1>3
<1>5. top.said \in Saids(index) /\ top.failed \in BOOLEAN
  BY DEF Frames
<1>6. top.failed <=> \E x \in DOMAIN CredentialOf(index, top.said).body.e :
                        ~Sound(CredentialOf(index, top.said).body.e[x])
  <2> DEFINE e == CredentialOf(index, top.said).body.e
  <2>1. EdgesTaken(top)
    BY <1>2, <1>3, <1>4 DEF StackDescends
  <2>2. PICK k \in 0 .. Len(e) :
          Len(top.refs) = Len(e) - k /\ (top.failed <=> \E x \in 1 .. k : ~Sound(e[x]))
    BY <2>1 DEF EdgesTaken
  <2>3. e \in Seq(Refs)
    BY <1>2, <1>5, EdgesAreRefs
  <2> HIDE DEF e
  <2>4. Len(e) \in Nat /\ DOMAIN e = 1 .. Len(e)
    BY <2>3, LenProperties
  <2>5. Len(top.refs) = 0
    BY <1>1, <1>4
  <2>6. k = Len(e)
    <3>1. \A n \in Nat : \A j \in 0 .. n : 0 = n - j => j = n
      OBVIOUS
    <3>2. Len(top.refs) = Len(e) - k
      BY <2>2
    <3> QED
      BY <2>4, <2>5, <3>1, <3>2
  <2> QED
    BY <2>2, <2>4, <2>6 DEF e
<1>7. ResultsJudged' /\ DOMAIN results' = DOMAIN results \cup {top.said}
  <2> DEFINE holds == ~top.failed
  <2>1. holds \in BOOLEAN /\ Record(top.said, holds)
    BY <1>1, <1>4
  <2>2. holds <=> \A x \in DOMAIN CredentialOf(index, top.said).body.e :
                      Sound(CredentialOf(index, top.said).body.e[x])
    BY <1>6
  <2> HIDE DEF holds
  <2> QED
    BY <1>1, <1>2, <1>5, <2>1, <2>2, RecordStep
<1>8. /\ stack' \in Seq(Frames) /\ DOMAIN stack' = 1 .. Len(stack) - 1
      /\ \A x \in 1 .. Len(stack) - 1 : stack'[x] = stack[x]
  <2>1. stack' = SubSeq(stack, 1, Len(stack) - 1)
    BY <1>1 DEF Front
  <2>2. \A x \in 1 .. Len(stack) - 1 : stack[x] \in Frames
    BY <1>2, <1>3, ElementOfSeq DEF StackDescends
  <2>3. /\ SubSeq(stack, 1, Len(stack) - 1) \in Seq(Frames)
        /\ Len(SubSeq(stack, 1, Len(stack) - 1))
             = IF 1 <= Len(stack) - 1 THEN (Len(stack) - 1) - 1 + 1 ELSE 0
        /\ \A x \in 1 .. (Len(stack) - 1) - 1 + 1 :
              SubSeq(stack, 1, Len(stack) - 1)[x] = stack[1 + x - 1]
    BY <1>3, <2>2, SubSeqProperties
  <2>4. Len(stack') = Len(stack) - 1 /\ stack' \in Seq(Frames)
    BY <1>3, <2>1, <2>3
  <2>5. \A x \in 1 .. Len(stack) - 1 : stack'[x] = stack[x]
    <3> TAKE x \in 1 .. Len(stack) - 1
    <3>1. x \in 1 .. (Len(stack) - 1) - 1 + 1 /\ 1 + x - 1 = x
      BY <1>3
    <3> QED
      BY <2>1, <2>3, <3>1
  <2> QED
    BY <2>4, <2>5, LenProperties
<1>9. \A x \in DOMAIN stack' : x \in DOMAIN stack /\ x # Len(stack) /\ stack'[x] = stack[x]
  <2>1. \A n \in Nat \ {0} : \A x \in 1 .. n - 1 : x \in 1 .. n /\ x # n
    OBVIOUS
  <2> QED
    BY <1>3, <1>8, <2>1
<1>10. ASSUME NEW f \in Elements(stack') PROVE f.said \notin DOMAIN results' /\ EdgesTaken(f)
  <2>1. PICK x \in DOMAIN stack' : f = stack'[x]
    BY DEF Elements
  <2>2. f \in Elements(stack) /\ f.said # top.said
    BY <1>3, <1>4, <1>9, <2>1 DEF Elements
  <2> QED
    BY <1>2, <1>7, <2>2 DEF StackDescends
<1>11. \A x, y \in DOMAIN stack' : x < y =>
         stack'[y].said # stack'[x].said /\ stack'[y].said \in LedTo(index, stack'[x].said)
  BY <1>2, <1>9 DEF StackDescends
<1>12. /\ \A f : EdgesTaken(f)' = EdgesTaken(f)
       /\ Frames' = Frames
  BY <1>1, Steady
<1>13. StackDescends'
  BY <1>1, <1>8, <1>10, <1>11, <1>12 DEF StackDescends
<1>14. Phases'
  BY <1>1 DEF Phases
<1> QED
  BY <1>1, <1>2, <1>7, <1>13, <1>14 DEF VerifyIInv

\* Nothing is judged while the stack is empty and there are no results.
LEMMA NothingJudged ==
    ASSUME results = <<>>, stack = <<>>
    PROVE ResultsJudged /\ StackDescends
<1>1. DOMAIN results = {} /\ DOMAIN stack = {}
  OBVIOUS
<1>2. stack \in Seq(Frames) /\ Elements(stack) = {}
  BY <1>1, EmptySeq DEF Elements
<1> QED
  BY <1>1, <1>2 DEF ResultsJudged, StackDescends

\* Nothing is collected and nothing judged at first.
LEMMA VerifyInitIInv == VerifyInit => VerifyIInv
<1> SUFFICES ASSUME VerifyInit PROVE VerifyIInv
  OBVIOUS
<1>1. Indexed(index)
  <2>1. index = <<>> /\ DOMAIN index = {} /\ Elements(index) = {}
    BY DEF VerifyInit, Elements
  <2> QED
    BY <2>1, EmptySeq DEF Indexed
<1>2. ResultsJudged /\ StackDescends
  BY NothingJudged DEF VerifyInit
<1>3. pieces \in Seq(Pieces)
  BY EmptySeq DEF VerifyInit
<1> QED
  BY <1>1, <1>2, <1>3 DEF VerifyInit, VerifyIInv, Phases

\* Before verification begins nothing is judged; collect makes an index.
LEMMA CollectingStep ==
    ASSUME VerifyIInv, (\E piece \in Pieces : Receive(piece)) \/ Collect \/ VerifyIdentifiers
    PROVE VerifyIInv'
<1>1. results = <<>> /\ stack = <<>> /\ results' = results /\ stack' = stack /\ pc' # "done"
  BY DEF VerifyIInv, Phases, Receive, Collect, VerifyIdentifiers
<1>2. ResultsJudged' /\ StackDescends'
  <2>1. results' = <<>> /\ stack' = <<>>
    BY <1>1
  <2>2. DOMAIN results' = {} /\ DOMAIN stack' = {}
    BY <2>1
  <2>3. stack' \in Seq(Frames') /\ Elements(stack') = {}
    BY <2>1, <2>2, EmptySeq DEF Elements
  <2> QED
    BY <2>2, <2>3 DEF ResultsJudged, StackDescends
<1>3. CASE \E piece \in Pieces : Receive(piece)
  <2>1. PICK piece \in Pieces : Receive(piece)
    BY <1>3
  <2>2. pieces' \in Seq(Pieces) /\ index' = index /\ pc' = pc
    BY <2>1, AppendProperties DEF Receive, VerifyIInv
  <2> QED
    BY <1>1, <1>2, <2>2 DEF VerifyIInv, Phases
<1>4. CASE Collect
  <2>1. Indexed(Flatten(FlattenSeq(pieces)))
    BY CollectedIndexed DEF VerifyIInv
  <2>2. Indexed(index')
    BY <1>4, <2>1 DEF Collect
  <2>3. pieces' = pieces /\ pc' = "collected"
    BY <1>4 DEF Collect
  <2> QED
    BY <1>1, <1>2, <2>2, <2>3 DEF VerifyIInv, Phases
<1>5. CASE VerifyIdentifiers
  <2>1. pieces' = pieces /\ pc' = "verifying" /\ index' = index
    BY <1>5 DEF VerifyIdentifiers
  <2> QED
    BY <1>1, <1>2, <2>1 DEF VerifyIInv, Phases
<1> QED
  BY <1>3, <1>4, <1>5

\* The end of the run changes no verdict.
LEMMA IdleStep ==
    ASSUME VerifyIInv, Report \/ UNCHANGED verifyVars
    PROVE VerifyIInv'
<1>1. /\ pieces' = pieces /\ index' = index /\ logs' = logs /\ results' = results /\ stack' = stack
      /\ pc' = pc \/ (pc' = "done" /\ Saids(index) \subseteq DOMAIN results)
  BY DEF Report, verifyVars
<1>2. /\ \A f : EdgesTaken(f)' = EdgesTaken(f)
      /\ Frames' = Frames
      /\ \A s : Founded(s)' = Founded(s)
  BY <1>1, Steady
<1>3. ResultsJudged'
  BY <1>1, <1>2 DEF VerifyIInv, ResultsJudged, RightVerdict
<1>4. StackDescends'
  BY <1>1, <1>2 DEF VerifyIInv, StackDescends
<1>5. Phases'
  BY <1>1 DEF VerifyIInv, Phases
<1> QED
  BY <1>1, <1>3, <1>4, <1>5 DEF VerifyIInv

\* Every step keeps the invariant.
LEMMA VerifyNextIInv == VerifyIInv /\ [VerifyNext]_verifyVars => VerifyIInv'
<1> SUFFICES ASSUME VerifyIInv, [VerifyNext]_verifyVars PROVE VerifyIInv'
  OBVIOUS
<1>1. CASE (\E piece \in Pieces : Receive(piece)) \/ Collect \/ VerifyIdentifiers
  BY <1>1, CollectingStep
<1>2. CASE NextCredential
  BY <1>2, NextCredentialStep
<1>3. CASE EdgeIsOpen
  BY <1>3, EdgeIsOpenStep
<1>4. CASE EdgeIsResolved
  BY <1>4, EdgeIsResolvedStep
<1>5. CASE ResolveEdge
  BY <1>5, ResolveEdgeStep
<1>6. CASE EdgesVerified
  BY <1>6, EdgesVerifiedStep
<1>7. CASE Report \/ UNCHANGED verifyVars
  BY <1>7, IdleStep
<1> QED
  BY <1>1, <1>2, <1>3, <1>4, <1>5, <1>6, <1>7 DEF VerifyNext, Finished

\* A stack without repetition is as high as it has credentials.
LEMMA StackCounted ==
    ASSUME VerifyIInv
    PROVE Cardinality(Visiting) = Len(stack)
<1> DEFINE f == [x \in 1 .. Len(stack) |-> stack[x].said]
<1>1. Len(stack) \in Nat /\ DOMAIN stack = 1 .. Len(stack)
  BY LenProperties DEF VerifyIInv, StackDescends
<1>2. \A x, y \in 1 .. Len(stack) : x # y => f[x] # f[y]
  <2> TAKE x, y \in 1 .. Len(stack)
  <2>1. x < y \/ y < x \/ x = y
    OBVIOUS
  <2> QED
    BY <1>1, <2>1 DEF VerifyIInv, StackDescends
<1>3. f \in [1 .. Len(stack) -> Visiting] /\ \A s \in Visiting : \E x \in 1 .. Len(stack) : f[x] = s
  BY <1>1 DEF Visiting
<1> HIDE DEF f
<1>4. f \in Bijection(1 .. Len(stack), Visiting)
  BY <1>2, <1>3 DEF Bijection, Injection, Surjection, IsInjective
<1>5. ExistsBijection(1 .. Len(stack), Visiting)
  BY <1>4 DEF ExistsBijection
<1> QED
  BY <1>1, <1>5, FS_CountingElements

\* The invariant of verification holds at all times.
LEMMA VerifyInvariant == VerifySpec => []VerifyIInv
<1> QED
  BY VerifyInitIInv, VerifyNextIInv, PTL DEF VerifySpec

\* Verification keeps to the credentials of the stream, and has each under way at most
\* once: verifyEdges recurses no deeper than there are credentials.
THEOREM VerificationTypeCorrect == VerifySpec => []TypeOK
<1>1. VerifyIInv => TypeOK
  <2> SUFFICES ASSUME VerifyIInv PROVE TypeOK
    OBVIOUS
  <2>1. pc \in {"collecting", "collected", "verifying", "done"}
    BY DEF VerifyIInv, Phases
  <2>2. Elements(pieces) \subseteq Pieces
    BY ElementOfSeq, LenProperties DEF VerifyIInv, Elements
  <2>3. DOMAIN results \subseteq Saids(index)
    BY DEF VerifyIInv, ResultsJudged
  <2>4. Visiting \subseteq Saids(index) \ DOMAIN results
    <3>1. \A x \in DOMAIN stack : stack[x] \in Frames /\ stack[x] \in Elements(stack)
      BY ElementOfSeq, LenProperties DEF VerifyIInv, StackDescends, Elements
    <3>2. \A frame \in Frames : frame.said \in Saids(index)
      BY DEF Frames
    <3> QED
      BY <3>1, <3>2 DEF VerifyIInv, StackDescends, Visiting
  <2>5. Cardinality(Visiting) = Len(stack)
    BY StackCounted
  <2> QED
    BY <2>1, <2>2, <2>3, <2>4, <2>5 DEF TypeOK
<1> QED
  BY <1>1, VerifyInvariant, PTL

\* A credential is found in order exactly when it and all it leads to check out and
\* nothing leads in a circle, whatever order verification took them in.
THEOREM VerdictFounded == VerifySpec => []OkIsFounded
<1>1. VerifyIInv => OkIsFounded
  <2> SUFFICES ASSUME VerifyIInv, pc = "done", NEW said \in Saids(index)
               PROVE results[said].ok <=> Founded(said)
    BY DEF OkIsFounded, Founded, Stands
  <2>1. said \in DOMAIN results
    BY DEF VerifyIInv, Phases
  <2> QED
    BY <2>1 DEF VerifyIInv, ResultsJudged, RightVerdict
<1> QED
  BY <1>1, VerifyInvariant, PTL

-----------------------------------------------------------------------------
(* verify: the key events of an identifier in the stream. *)

\* Different places for all of them fill all places.
LEMMA PlacesFilled ==
    ASSUME NEW n \in Nat, NEW f \in [1 .. n -> 1 .. n], \A z, w \in 1 .. n : z # w => f[z] # f[w]
    PROVE \A k \in 1 .. n : \E z \in 1 .. n : f[z] = k
<1> SUFFICES ASSUME NEW k \in 1 .. n, \A z \in 1 .. n : f[z] # k PROVE FALSE
  OBVIOUS
<1>1. IsFiniteSet(1 .. n) /\ Cardinality(1 .. n) = n
  BY FS_Interval
<1>2. IsFiniteSet((1 .. n) \ {k}) /\ Cardinality((1 .. n) \ {k}) = n - 1
  BY <1>1, FS_RemoveElement
<1>3. f \in [1 .. n -> (1 .. n) \ {k}]
  OBVIOUS
<1>4. PICK S, T : S = 1 .. n /\ T = (1 .. n) \ {k}
  OBVIOUS
<1>5. IsFiniteSet(S) /\ IsFiniteSet(T) /\ Cardinality(T) < Cardinality(S) /\ f \in [S -> T]
  BY <1>1, <1>2, <1>3, <1>4
<1>6. \E z, w \in S : z # w /\ f[z] = f[w]
  BY <1>5, FS_PigeonHole
<1> QED
  BY <1>4, <1>6

\* Those that sorting by sequence number puts before the one at a position.
Before(events, z) ==
    {y \in DOMAIN events : \/ events[y].body.s < events[z].body.s
                           \/ events[y].body.s = events[z].body.s /\ y < z}

\* Sorting by sequence number adds nothing, and puts each behind those before it.
LEMMA SortedMembers ==
    ASSUME NEW M, NEW events \in Seq(M), \A m \in M : m.body.s \in Nat
    PROVE /\ SortedBySn(events) \in Seq(M)
          /\ Len(SortedBySn(events)) = Len(events)
          /\ Elements(SortedBySn(events)) \subseteq Elements(events)
          /\ \A x \in DOMAIN SortedBySn(events) : \E z \in DOMAIN events :
                SortedBySn(events)[x] = events[z] /\ Cardinality(Before(events, z)) = x - 1
<1> DEFINE n == Len(events)
           before(z) == Before(events, z)
           f == [z \in 1 .. n |-> Cardinality(before(z)) + 1]
           sorted == [x \in DOMAIN events |->
                         events[CHOOSE z \in DOMAIN events : Cardinality(before(z)) = x - 1]]
<1>1. n \in Nat /\ DOMAIN events = 1 .. n /\ \A z \in 1 .. n : events[z] \in M /\ events[z].body.s \in Nat
  BY LenProperties, ElementOfSeq
<1>2. SortedBySn(events) = sorted
  BY DEF SortedBySn, Before
<1>3. \A z \in 1 .. n : before(z) \subseteq (1 .. n) \ {z}
  BY <1>1 DEF Before
<1>4. \A z, w \in 1 .. n : z \in before(w) => before(z) \subseteq before(w) \ {z}
  BY <1>1 DEF Before
<1>5. \A z, w \in 1 .. n : z # w => z \in before(w) \/ w \in before(z)
  BY <1>1 DEF Before
<1> HIDE DEF before, n
<1>6. ASSUME NEW z \in 1 .. n
      PROVE IsFiniteSet(before(z)) /\ Cardinality(before(z)) \in Nat /\ Cardinality(before(z)) < n
  <2>1. IsFiniteSet(1 .. n) /\ Cardinality(1 .. n) = n
    BY <1>1, FS_Interval
  <2>2. IsFiniteSet((1 .. n) \ {z}) /\ Cardinality((1 .. n) \ {z}) = n - 1
    BY <2>1, FS_RemoveElement
  <2>3. IsFiniteSet(before(z)) /\ Cardinality(before(z)) <= n - 1
    BY <1>3, <2>2, FS_Subset
  <2>4. Cardinality(before(z)) \in Nat
    BY <2>3, FS_CardinalityType
  <2> QED
    BY <1>1, <2>3, <2>4
<1>7. ASSUME NEW z \in 1 .. n, NEW w \in 1 .. n, z \in before(w)
      PROVE Cardinality(before(z)) < Cardinality(before(w))
  <2>1. before(z) \subseteq before(w) \ {z}
    BY <1>4, <1>7
  <2>2. /\ IsFiniteSet(before(w) \ {z}) /\ Cardinality(before(w) \ {z}) = Cardinality(before(w)) - 1
    BY <1>6, <1>7, FS_RemoveElement
  <2>3. Cardinality(before(z)) <= Cardinality(before(w)) - 1
    BY <2>1, <2>2, FS_Subset
  <2> QED
    BY <1>6, <2>3
<1>8. f \in [1 .. n -> 1 .. n]
  BY <1>1, <1>6
<1>9. \A z, w \in 1 .. n : z # w => f[z] # f[w]
  BY <1>5, <1>6, <1>7
<1>10. ASSUME NEW x \in 1 .. n PROVE \E z \in 1 .. n : Cardinality(before(z)) = x - 1
  <2>0. \A z \in 1 .. n : f[z] = Cardinality(before(z)) + 1
    OBVIOUS
  <2> HIDE DEF f
  <2>1. PICK z \in 1 .. n : f[z] = x
    BY <1>1, <1>8, <1>9, PlacesFilled
  <2> QED
    BY <1>6, <2>0, <2>1
<1>11. \A x \in 1 .. n : \E z \in 1 .. n : sorted[x] = events[z] /\ Cardinality(before(z)) = x - 1
  BY <1>1, <1>10
<1>12. sorted \in [1 .. n -> M]
  BY <1>1, <1>11
<1> HIDE DEF sorted
<1>13. sorted \in Seq(M) /\ Len(sorted) = n
  BY <1>1, <1>12, SeqDef, LenProperties
<1>14. Elements(sorted) \subseteq Elements(events)
  BY <1>1, <1>11, <1>12 DEF Elements
<1>15. \A x \in DOMAIN sorted : \E z \in DOMAIN events : sorted[x] = events[z] /\ Cardinality(before(z)) = x - 1
  BY <1>1, <1>11, <1>12
<1> QED
  BY <1>2, <1>13, <1>14, <1>15 DEF n, before

\* What Union takes under an index it takes from one of the lists.
LEMMA UnionTakes ==
    ASSUME NEW L, NEW lists \in Seq(L), NEW z \in DOMAIN Union(lists)
    PROVE \E x \in DOMAIN lists : z \in DOMAIN lists[x] /\ Union(lists)[z] = lists[x][z]
<1> DEFINE I == {i \in 1 .. Len(lists) : z \in DOMAIN lists[i]}
<1>1. Len(lists) \in Nat /\ DOMAIN lists = 1 .. Len(lists)
  BY LenProperties
<1>2. DOMAIN Union(lists) = UNION {DOMAIN lists[x] : x \in DOMAIN lists}
  BY DEF Union
<1>3. I # {} /\ I \subseteq Nat
  BY <1>1, <1>2
<1> HIDE DEF I
<1>4. PICK x \in I : \A y \in I : x <= y
  BY <1>3, NatMin
<1>5. Min(I) \in I
  BY <1>4 DEF Min
<1>6. Union(lists)[z] = lists[Min(I)][z]
  BY <1>2, <1>3 DEF Union, SelectInSeq, I
<1> QED
  BY <1>1, <1>5, <1>6 DEF I

\* A member of an index is merged from the copies of one message, all of them.
LEMMA FlattenMembers ==
    ASSUME NEW messages \in Seq(SentMessages), NEW m \in Elements(Flatten(messages))
    PROVE \E copies \in Seq(Copies) :
              /\ copies # <<>> /\ m = Merge(copies)
              /\ \A n \in DOMAIN copies : copies[n].body.d = m.body.d
              /\ Elements(copies) = {c \in Elements(Pending(messages)) : c.body.d = m.body.d}
<1> DEFINE pending == Pending(messages)
           same(d) == {z \in DOMAIN pending : pending[z].body.d = d}
           new == {z \in DOMAIN pending : \A y \in 1 .. z - 1 : pending[y].body.d # pending[z].body.d}
           firsts == Selected(pending, new)
           merged == [n \in DOMAIN firsts |-> Merge(Selected(pending, same(firsts[n].body.d)))]
<1>1. Flatten(messages) = merged
  BY DEF Flatten
<1>2. pending \in Seq(Copies)
  BY PendingIsSequence
<1> HIDE DEF pending
<1>3. new \in SUBSET (DOMAIN pending) /\ \A d : same(d) \in SUBSET (DOMAIN pending)
  OBVIOUS
<1> HIDE DEF new
<1>4. \A n \in DOMAIN firsts : \E z \in new : firsts[n] = pending[z]
  BY <1>2, <1>3, SelectedMembers
<1>5. PICK n \in DOMAIN firsts : m = Merge(Selected(pending, same(firsts[n].body.d)))
  BY <1>1 DEF Elements
<1>6. PICK d : d = firsts[n].body.d /\ same(d) # {}
  BY <1>3, <1>4
<1>7. /\ \A z \in same(d) : pending[z].body.d = d
      /\ {pending[z] : z \in same(d)} = {c \in Elements(pending) : c.body.d = d}
  BY DEF Elements
<1>8. PICK I \in SUBSET (DOMAIN pending) : I = same(d)
  BY <1>3
<1> HIDE DEF firsts, same
<1>9. /\ Selected(pending, I) \in Seq(Copies) /\ Selected(pending, I) # <<>>
      /\ \A x \in DOMAIN Selected(pending, I) : \E z \in I : Selected(pending, I)[x] = pending[z]
      /\ Elements(Selected(pending, I)) = {pending[z] : z \in I}
  BY <1>2, <1>6, <1>8, SelectedMembers
<1>10. PICK copies : copies = Selected(pending, I)
  OBVIOUS
<1>11. \A x \in DOMAIN copies : copies[x].body.d = d
  BY <1>7, <1>8, <1>9, <1>10
<1>12. m = Merge(copies)
  BY <1>5, <1>6, <1>8, <1>10
<1>13. m.body.d = d
  <2>1. copies \in Seq(Copies) /\ copies # <<>>
    BY <1>9, <1>10
  <2>2. 1 \in DOMAIN copies
    <3>1. Len(copies) \in Nat /\ DOMAIN copies = 1 .. Len(copies)
      BY <2>1, LenProperties
    <3>2. Len(copies) # 0
      BY <2>1, EmptySeq
    <3> QED
      BY <3>1, <3>2
  <2>3. m.body = copies[1].body
    BY <1>12 DEF Merge
  <2> QED
    BY <1>11, <2>2, <2>3
<1>14. Elements(copies) = {c \in Elements(pending) : c.body.d = m.body.d}
  BY <1>7, <1>8, <1>9, <1>10, <1>13
<1> QED
  BY <1>9, <1>10, <1>11, <1>12, <1>13, <1>14 DEF pending

\* What the assumptions say of the copies of key events holds of one merged from them.
Genuine(m) ==
    /\ m.body.s \in Nat
    /\ (\E z \in DOMAIN m.sigs : OwnsKey(m.body.i, m.sigs[z])) => Published(m.body)
    /\ IsEstablishment(m.body.t) => m.body.k \in Seq(Elements(m.body.k)) /\ IsThreshold(m.body.kt)

\* Merging keeps that: a merged message has the body of a copy, and a signature that counts
\* is one that a copy with this very body has.
LEMMA MergedGenuine ==
    ASSUME NEW messages \in Seq(SentMessages), NEW m \in Elements(Flatten(messages)),
           IsKelEventType(m.body.t)
    PROVE Genuine(m)
<1>1. PICK copies \in Seq(Copies) : copies # <<>> /\ m = Merge(copies)
  BY FlattenMembers
<1>2. Len(copies) \in Nat /\ DOMAIN copies = 1 .. Len(copies) /\ Len(copies) # 0
  BY <1>1, LenProperties, EmptySeq
<1>3. 1 \in DOMAIN copies /\ \A n \in DOMAIN copies : copies[n] \in Copies
  BY <1>2, ElementOfSeq
<1>4. PICK body : body = m.body /\ body = copies[1].body
  BY <1>1 DEF Merge
<1>5. ASSUME NEW z \in DOMAIN m.sigs
      PROVE \E n \in DOMAIN copies :
                /\ z \in DOMAIN copies[n].sigs
                /\ m.sigs[z] = IF copies[n].body = body THEN copies[n].sigs[z] ELSE Null
  <2>1. PICK lists : lists = [x \in DOMAIN copies |-> SigsOver(body, copies[x], copies[x].sigs)]
    OBVIOUS
  <2>2. m.sigs = Union(lists)
    BY <1>1, <1>4, <2>1 DEF Merge
  <2>3. PICK L : L = {SigsOver(body, copies[x], copies[x].sigs) : x \in DOMAIN copies}
    OBVIOUS
  <2>4. lists \in [1 .. Len(copies) -> L]
    BY <1>2, <2>1, <2>3
  <2>5. lists \in Seq(L)
    BY <1>2, <2>4, SeqDef
  <2>6. PICK x \in DOMAIN lists : z \in DOMAIN lists[x] /\ m.sigs[z] = lists[x][z]
    BY <1>5, <2>2, <2>5, UnionTakes
  <2>7. x \in DOMAIN copies /\ lists[x] = SigsOver(body, copies[x], copies[x].sigs)
    BY <2>1, <2>6
  <2> QED
    BY <2>6, <2>7 DEF SigsOver
<1>6. /\ body.s \in Nat
      /\ IsEstablishment(body.t) => body.k \in Seq(Elements(body.k)) /\ IsThreshold(body.kt)
  BY <1>3, <1>4, VerificationAssumption DEF IsSequence
<1>7. ASSUME NEW n \in DOMAIN copies, copies[n].body = body
      PROVE /\ ~OwnsKey(body.i, Null)
            /\ (\E z \in DOMAIN copies[n].sigs : OwnsKey(body.i, copies[n].sigs[z])) => Published(body)
  <2>1. copies[n] \in Copies /\ IsKelEventType(copies[n].body.t)
    BY <1>3, <1>4, <1>7
  <2> QED
    BY <1>7, <2>1, TruthAssumption
<1>8. (\E z \in DOMAIN m.sigs : OwnsKey(body.i, m.sigs[z])) => Published(body)
  <2> SUFFICES ASSUME NEW z \in DOMAIN m.sigs, OwnsKey(body.i, m.sigs[z]) PROVE Published(body)
    OBVIOUS
  <2>1. PICK n \in DOMAIN copies :
          /\ z \in DOMAIN copies[n].sigs
          /\ m.sigs[z] = IF copies[n].body = body THEN copies[n].sigs[z] ELSE Null
    BY <1>5
  <2>2. ~OwnsKey(body.i, Null)
    BY <1>3, <1>4, <1>7
  <2>3. copies[n].body = body /\ m.sigs[z] = copies[n].sigs[z]
    BY <2>1, <2>2
  <2> QED
    BY <1>7, <2>1, <2>3
<1> QED
  BY <1>4, <1>6, <1>8 DEF Genuine

\* A log of published events only, in the hands of the owner's keys.
OwnersLog(log, aid, M) ==
    /\ log.events \in Seq(M)
    /\ \A m \in Elements(log.events) : Published(m.body)
    /\ log.events # <<>> =>
          /\ DOMAIN log.state = KeyStateFields
          /\ log.state.signingKeys \in Seq(Elements(log.state.signingKeys))
          /\ IsThreshold(log.state.signingThreshold)
          /\ \A key \in Elements(log.state.signingKeys) : OwnsKey(aid, key)
          /\ \A key : NextKeyDigest(key) \in Elements(log.state.nextKeyDigests) => OwnsKey(aid, key)

\* With a signature by a key of its owner, an event is published.
LEMMA SignedPublished ==
    ASSUME NEW m, Genuine(m), NEW K, NEW keys \in Seq(K), NEW kt, IsThreshold(kt),
           \A key \in Elements(keys) : OwnsKey(m.body.i, key),
           VerifyThreshold(keys, kt, m.sigs)
    PROVE Published(m.body)
<1>1. PICK z \in DOMAIN m.sigs : z \in DOMAIN keys /\ m.sigs[z] = keys[z]
  BY SignatureNeeded
<1>2. OwnsKey(m.body.i, m.sigs[z])
  BY <1>1 DEF Elements
<1> QED
  BY <1>2 DEF Genuine

\* The keys of a published establishment event, and those it commits to, are the owner's.
LEMMA PublishedKeys ==
    ASSUME NEW m, Published(m.body), IsEstablishment(m.body.t)
    PROVE /\ \A key \in Elements(m.body.k) : OwnsKey(m.body.i, key)
          /\ \A key : NextKeyDigest(key) \in Elements(m.body.n) => OwnsKey(m.body.i, key)
BY DEF Published, OwnsKey

\* What append adds to such a log is published, if what the log begins with is.
LEMMA AppendedPublished ==
    ASSUME NEW M, NEW aid, NEW log, OwnersLog(log, aid, M), NEW m \in M, Genuine(m), m.body.i = aid,
           log.events = <<>> => Published(m.body),
           NEW opts, opts.allowPartiallySigned = FALSE, CanAppend(log, m, opts)
    PROVE Published(m.body)
<1>1. CASE CanIncept(log, m, opts)
  BY <1>1 DEF CanIncept, HasState
<1>2. CASE CanInteract(log, m, opts)
  <2>1. VerifyThreshold(log.state.signingKeys, log.state.signingThreshold, m.sigs) /\ log.events # <<>>
    BY <1>2 DEF CanInteract, VerifySigning, HasState
  <2> QED
    BY <2>1, SignedPublished DEF OwnersLog
<1>3. CASE CanRotate(log, m, opts)
  <2>1. /\ VerifyThreshold(m.body.k, m.body.kt, m.sigs) /\ log.events # <<>>
        /\ IsEstablishment(m.body.t) /\ Committed(log.state, m.body.k)
    BY <1>3 DEF CanRotate, VerifySigning, HasState, IsEstablishment
  <2>2. \A key \in Elements(m.body.k) : OwnsKey(aid, key)
    BY <2>1 DEF Committed, Elements, OwnersLog
  <2>3. m.body.k \in Seq(Elements(m.body.k)) /\ IsThreshold(m.body.kt)
    BY <2>1 DEF Genuine
  <2> QED
    BY <2>1, <2>2, <2>3, SignedPublished
<1> QED
  BY <1>1, <1>2, <1>3 DEF CanAppend

\* append keeps the log in the owner's hands.
LEMMA AppendedOwners ==
    ASSUME NEW M, NEW aid, NEW log, OwnersLog(log, aid, M), NEW m \in M, Genuine(m), m.body.i = aid,
           log.events = <<>> => Published(m.body),
           NEW opts, opts.allowPartiallySigned = FALSE, CanAppend(log, m, opts)
    PROVE OwnersLog(Extend(log, m, opts), aid, M)
<1> DEFINE n == Extend(log, m, opts)
<1>1. Published(m.body)
  BY AppendedPublished
<1>2. n.events = Append(log.events, m) /\ n.state = ReduceKeyState(log.state, m.body)
  BY DEF Extend
<1> HIDE DEF n
<1>3. /\ n.events \in Seq(M)
      /\ \A e \in Elements(n.events) : Published(e.body)
  <2>1. log.events \in Seq(M) /\ \A e \in Elements(log.events) : Published(e.body)
    BY DEF OwnersLog
  <2>2. n.events \in Seq(M) /\ Elements(n.events) = Elements(log.events) \cup {m}
    BY <1>2, <2>1, AppendProperties, LenProperties DEF Elements
  <2> QED
    BY <1>1, <2>1, <2>2
<1>4. CASE IsEstablishment(m.body.t)
  <2>1. n.state = InceptionState(m.body) \/ (n.state = RotationState(log.state, m.body) /\ log.events # <<>>)
    BY <1>2, <1>4 DEF ReduceKeyState, CanAppend, CanIncept, CanInteract, CanRotate, HasState,
       IsEstablishment, IsInception, IsRotation
  <2>2. /\ DOMAIN n.state = KeyStateFields
        /\ n.state.signingKeys = m.body.k /\ n.state.signingThreshold = m.body.kt
        /\ n.state.nextKeyDigests = m.body.n
    <3>1. CASE n.state = InceptionState(m.body)
      BY <3>1 DEF InceptionState, KeyStateFields
    <3>2. CASE n.state = RotationState(log.state, m.body) /\ log.events # <<>>
      <4>1. DOMAIN log.state = KeyStateFields
        BY <3>2 DEF OwnersLog
      <4> QED
        BY <3>2, <4>1 DEF RotationState, KeyStateFields
    <3> QED
      BY <2>1, <3>1, <3>2
  <2>3. m.body.k \in Seq(Elements(m.body.k)) /\ IsThreshold(m.body.kt)
    BY <1>4 DEF Genuine
  <2>4. /\ \A key \in Elements(m.body.k) : OwnsKey(aid, key)
        /\ \A key : NextKeyDigest(key) \in Elements(m.body.n) => OwnsKey(aid, key)
    BY <1>1, <1>4, PublishedKeys
  <2> QED
    BY <1>3, <2>2, <2>3, <2>4 DEF OwnersLog, n
<1>5. CASE ~IsEstablishment(m.body.t)
  <2>1. m.body.t = "ixn" /\ log.events # <<>>
    BY <1>5 DEF CanAppend, CanIncept, CanInteract, CanRotate, HasState, IsEstablishment
  <2>2. n.state = InteractionState(log.state, m.body) /\ DOMAIN log.state = KeyStateFields
    BY <1>2, <2>1 DEF ReduceKeyState, OwnersLog, IsInception, IsRotation
  <2>3. /\ DOMAIN n.state = KeyStateFields
        /\ n.state.signingKeys = log.state.signingKeys /\ n.state.signingThreshold = log.state.signingThreshold
        /\ n.state.nextKeyDigests = log.state.nextKeyDigests
    BY <2>2 DEF InteractionState, KeyStateFields
  <2> QED
    BY <1>3, <2>1, <2>3 DEF OwnersLog, n
<1> QED
  BY <1>4, <1>5

\* KeyEventLog.from, given events under one identifier of which the first is published,
\* returns a log of published events.
LEMMA FromPublished ==
    ASSUME NEW M, NEW aid, \A m \in M : Genuine(m) /\ m.body.i = aid,
           NEW messages \in Seq(M), messages # <<>> => Published(messages[1].body),
           NEW opts, opts.allowPartiallySigned = FALSE, NEW log \in From(messages, opts)
    PROVE \A m \in Elements(log.events) : Published(m.body)
<1>1. Len(messages) \in Nat /\ DOMAIN messages = 1 .. Len(messages)
  BY LenProperties
<1>2. PICK after :
        /\ From(messages, opts) = after[Len(messages)]
        /\ after[0] = {EmptyLog}
        /\ \A x \in 1 .. Len(messages) : after[x] = NextLogs(after[x - 1], messages[x], opts)
  BY <1>1, FromRecursion
<1> DEFINE S == {x \in Nat : x <= Len(messages) =>
                    \A l \in after[x] : OwnersLog(l, aid, M) /\ (l.events = <<>> => x = 0)}
<1>3. 0 \in S
  <2>1. EmptyLog.events = <<>> /\ Elements(<<>>) = {} /\ <<>> \in Seq(M)
    BY EmptySeq DEF EmptyLog, Elements
  <2>2. OwnersLog(EmptyLog, aid, M)
    BY <2>1 DEF OwnersLog
  <2> QED
    BY <1>2, <2>2
<1>4. \A x \in Nat : x \in S => x + 1 \in S
  <2> SUFFICES ASSUME NEW x \in Nat, x \in S, x + 1 <= Len(messages), NEW l \in after[x + 1]
               PROVE OwnersLog(l, aid, M) /\ l.events # <<>>
    <3>1. \A n \in Nat : n + 1 \in Nat
      OBVIOUS
    <3> QED
      BY <3>1
  <2>1. x + 1 \in 1 .. Len(messages) /\ (x + 1) - 1 = x /\ x <= Len(messages)
    BY <1>1
  <2>2. after[x + 1] = NextLogs(after[x], messages[x + 1], opts)
    BY <1>2, <2>1
  <2>3. PICK k \in after[x] : CanAppend(k, messages[x + 1], opts) /\ l = Extend(k, messages[x + 1], opts)
    BY <2>2 DEF NextLogs
  <2>4. OwnersLog(k, aid, M) /\ messages[x + 1] \in M /\ (k.events = <<>> => x = 0)
    BY <1>1, <2>1, ElementOfSeq
  <2>5. k.events = <<>> => Published(messages[x + 1].body)
    <3>1. messages # <<>>
      BY <1>1, <2>1
    <3> QED
      BY <2>4, <3>1
  <2>6. l.events # <<>>
    <3>1. l.events = Append(k.events, messages[x + 1]) /\ k.events \in Seq(M)
      BY <2>3, <2>4 DEF Extend, OwnersLog
    <3> QED
      BY <2>4, <3>1, AppendProperties
  <2> QED
    BY <2>3, <2>4, <2>5, <2>6, AppendedOwners
<1> HIDE DEF S
<1>5. Len(messages) \in S
  BY <1>1, <1>3, <1>4, SetInduction
<1> QED
  BY <1>1, <1>2, <1>5 DEF S, OwnersLog

\* The key events of an index.
KelOf(idx) == {m \in Elements(idx) : IsKelEventType(m.body.t)}

Numbered(idx) == \A m \in KelOf(idx) : m.body.s \in Nat

\* The events filed under an identifier are its own, and there are some.
LEMMA OwnKeyEventsOf ==
    ASSUME NEW idx, Indexed(idx), Numbered(idx), NEW aid \in AidsOf(idx)
    PROVE /\ OwnKeyEvents(idx, aid) \in Seq(KelOf(idx)) /\ OwnKeyEvents(idx, aid) # <<>>
          /\ OwnedBy(aid, OwnKeyEvents(idx, aid))
<1> DEFINE I == {x \in DOMAIN idx : IsKelEventType(idx[x].body.t) /\ idx[x].body.i = aid}
<1>1. I \in SUBSET (DOMAIN idx) /\ idx \in Seq(Elements(idx))
  BY DEF Indexed
<1>2. \A x \in I : idx[x] \in KelOf(idx) /\ idx[x].body.i = aid
  BY DEF KelOf, Elements
<1>3. I # {}
  BY DEF AidsOf, Elements
<1>4. PICK events : events = Selected(idx, I)
  OBVIOUS
<1>5. OwnKeyEvents(idx, aid) = SortedBySn(events)
  BY <1>4 DEF OwnKeyEvents
<1> HIDE DEF I
<1>6. /\ events \in Seq(Elements(idx)) /\ events # <<>>
      /\ Elements(events) = {idx[x] : x \in I}
  BY <1>1, <1>3, <1>4, SelectedMembers
<1>7. events \in Seq(KelOf(idx))
  <2>1. \A n \in DOMAIN events : events[n] \in KelOf(idx)
    BY <1>2, <1>6 DEF Elements
  <2>2. Len(events) \in Nat /\ DOMAIN events = 1 .. Len(events)
    BY <1>6, LenProperties
  <2>3. events \in [1 .. Len(events) -> KelOf(idx)]
    BY <1>6, <2>1, <2>2, LenProperties
  <2> QED
    BY <2>2, <2>3, SeqDef
<1>8. PICK sorted : sorted = SortedBySn(events)
  OBVIOUS
<1>9. /\ sorted \in Seq(KelOf(idx)) /\ Len(sorted) = Len(events)
      /\ Elements(sorted) \subseteq Elements(events)
  BY <1>7, <1>8, SortedMembers DEF Numbered
<1>10. sorted # <<>>
  <2>1. Len(events) # 0
    BY <1>6, EmptySeq
  <2> QED
    BY <1>9, <2>1, EmptySeq
<1>11. OwnedBy(aid, sorted)
  BY <1>2, <1>6, <1>9 DEF OwnedBy
<1> QED
  BY <1>5, <1>8, <1>9, <1>10, <1>11

\* keyEvents from current on, for each identifier that has not been visited.
Walk(idx, chain, visited) ==
    [current \in AidsOf(idx) \ visited |->
        LET events == OwnKeyEvents(idx, current)
            first  == events[1].body
        IN  events \o IF first.t = "dip" /\ first.di \in AidsOf(idx) \ (visited \cup {current})
                      THEN chain[visited \cup {current}][first.di]
                      ELSE <<>>]

\* A walk goes on where one more has been visited.
LEMMA WalkLocally ==
    ASSUME NEW idx, NEW f, NEW g, NEW visited,
           \A current \in AidsOf(idx) \ visited : f[visited \cup {current}] = g[visited \cup {current}]
    PROVE Walk(idx, f, visited) = Walk(idx, g, visited)
BY DEF Walk

\* An index has finitely many identifiers.
LEMMA AidsFinite ==
    ASSUME NEW idx, Indexed(idx)
    PROVE IsFiniteSet(AidsOf(idx)) /\ Cardinality(AidsOf(idx)) \in Nat
<1>1. IsFiniteSet(Identifiers(idx))
  BY IdentifiersFinite DEF Indexed
<1>2. AidsOf(idx) \subseteq Identifiers(idx)
  BY DEF AidsOf, Identifiers
<1>3. IsFiniteSet(AidsOf(idx))
  BY <1>1, <1>2, FS_Subset
<1> QED
  BY <1>3, FS_CardinalityType

\* The walk of keyEvents ends, as it visits nobody twice.
LEMMA WalkRecursion ==
    ASSUME NEW idx, Indexed(idx), NEW aid \in AidsOf(idx)
    PROVE \E chain :
              /\ KeyEventsOf(idx, aid) = chain[{}][aid]
              /\ \A visited \in SUBSET AidsOf(idx) : chain[visited] = Walk(idx, chain, visited)
<1> DEFINE ids == AidsOf(idx)
           Left(n) == {v \in SUBSET ids : Cardinality(ids \ v) <= n}
           Good(f, n) == \A v \in Left(n) : f[v] = Walk(idx, f, v)
           S == {n \in Nat : \E f : Good(f, n)}
<1>1. IsFiniteSet(ids) /\ Cardinality(ids) \in Nat
  BY AidsFinite
<1>2. \A v \in SUBSET ids : /\ IsFiniteSet(ids \ v) /\ Cardinality(ids \ v) \in Nat
                            /\ Cardinality(ids \ v) <= Cardinality(ids)
  BY <1>1, FS_Subset, FS_CardinalityType
<1>3. ASSUME NEW v \in SUBSET ids, NEW c \in ids \ v
      PROVE v \cup {c} \in SUBSET ids /\ Cardinality(ids \ (v \cup {c})) = Cardinality(ids \ v) - 1
  <2>1. PICK rest : rest = ids \ v /\ IsFiniteSet(rest) /\ c \in rest
    BY <1>2
  <2>2. ids \ (v \cup {c}) = rest \ {c}
    BY <2>1
  <2>3. Cardinality(rest \ {c}) = Cardinality(rest) - 1
    BY <2>1, FS_RemoveElement
  <2>4. v \cup {c} \in SUBSET ids
    OBVIOUS
  <2> QED
    BY <2>1, <2>2, <2>3, <2>4
<1>4. 0 \in S
  <2> DEFINE f == [v \in SUBSET ids |-> Walk(idx, <<>>, v)]
  <2>1. ASSUME NEW v \in Left(0) PROVE f[v] = Walk(idx, f, v)
    <3>1. ids \ v = {}
      BY <1>2, FS_EmptySet
    <3>2. f[v] = Walk(idx, <<>>, v)
      OBVIOUS
    <3> HIDE DEF f
    <3>3. Walk(idx, <<>>, v) = Walk(idx, f, v)
      BY <3>1, WalkLocally
    <3> QED
      BY <3>2, <3>3
  <2> QED
    BY <2>1
<1>5. ASSUME NEW n \in Nat, n \in S PROVE n + 1 \in S
  <2>1. PICK f : Good(f, n)
    BY <1>5
  <2> DEFINE g == [v \in SUBSET ids |-> IF v \in Left(n) THEN f[v] ELSE Walk(idx, f, v)]
  <2>2. ASSUME NEW v \in Left(n + 1) PROVE g[v] = Walk(idx, f, v)
    BY <2>1
  <2>3. ASSUME NEW v \in Left(n + 1) PROVE Walk(idx, f, v) = Walk(idx, g, v)
    <3>1. ASSUME NEW c \in ids \ v PROVE f[v \cup {c}] = g[v \cup {c}]
      <4>1. v \cup {c} \in Left(n)
        <5>1. v \in SUBSET ids /\ Cardinality(ids \ v) <= n + 1 /\ Cardinality(ids \ v) \in Nat
          BY <1>2
        <5>2. v \cup {c} \in SUBSET ids /\ Cardinality(ids \ (v \cup {c})) = Cardinality(ids \ v) - 1
          BY <1>3, <5>1
        <5>3. Cardinality(ids \ (v \cup {c})) <= n
          BY <5>1, <5>2
        <5> QED
          BY <5>2, <5>3
      <4> QED
        BY <4>1
    <3> HIDE DEF g
    <3> QED
      BY <3>1, WalkLocally
  <2>4. Good(g, n + 1)
    BY <2>2, <2>3
  <2> HIDE DEF Good, g
  <2> QED
    BY <2>4
<1> HIDE DEF S
<1>6. Cardinality(ids) \in S
  BY <1>1, <1>4, <1>5, SetInduction
<1>7. PICK f : Good(f, Cardinality(ids))
  BY <1>6 DEF S
<1>8. \A v \in SUBSET ids : f[v] = Walk(idx, f, v)
  BY <1>2, <1>7
<1>9. PICK g : g = [v \in SUBSET ids |-> f[v]]
  OBVIOUS
<1>10. \A v \in SUBSET ids : Walk(idx, f, v) = Walk(idx, g, v)
  <2> TAKE v \in SUBSET ids
  <2>1. \A c \in ids \ v : f[v \cup {c}] = g[v \cup {c}]
    BY <1>3, <1>9
  <2> QED
    BY <2>1, WalkLocally
<1> DEFINE Equation(h) == h = [v \in SUBSET ids |-> Walk(idx, h, v)]
<1>11. Equation(g)
  BY <1>8, <1>9, <1>10
<1>12. KeyEventsOf(idx, aid) = (CHOOSE h : Equation(h))[{}][aid]
  BY DEF KeyEventsOf, Walk
<1>13. Equation(CHOOSE h : Equation(h))
  <2> HIDE DEF Equation
  <2> QED
    BY <1>11
<1>14. PICK h : h = (CHOOSE c : Equation(c))
  OBVIOUS
<1>15. Equation(h)
  BY <1>13, <1>14
<1> QED
  BY <1>12, <1>14, <1>15

\* Events of a delegate before a stream of others name the delegator.
LEMMA PrependedDelegators ==
    ASSUME NEW M, NEW events \in Seq(M), NEW rest \in Seq(M), NEW c, OwnedBy(c, events),
           c \notin Identifiers(rest)
    PROVE /\ events \o rest \in Seq(M)
          /\ events # <<>> => Identifiers(events \o rest) = {c} \cup Identifiers(rest)
          /\ Delegators(rest) \subseteq Delegators(events \o rest)
          /\ events # <<>> /\ events[1].body.t = "dip" => events[1].body.di \in Delegators(events \o rest)
<1> DEFINE all == events \o rest
           n == Len(events)
<1>1. /\ n \in Nat /\ DOMAIN events = 1 .. n
      /\ Len(rest) \in Nat /\ DOMAIN rest = 1 .. Len(rest)
  BY LenProperties
<1>2. all \in Seq(M) /\ Elements(all) = Elements(events) \cup Elements(rest)
  BY ConcatElements
<1>3. /\ DOMAIN all = 1 .. n + Len(rest)
      /\ \A x \in 1 .. n + Len(rest) : all[x] = IF x <= n THEN events[x] ELSE rest[x - n]
  BY <1>1, ConcatProperties, LenProperties
<1>4. \A x \in 1 .. n : all[x].body.i = c
  BY <1>1, <1>3 DEF OwnedBy, Elements
<1>5. \A x \in DOMAIN rest : rest[x].body.i # c
  BY DEF Identifiers, Elements
<1> HIDE DEF all, n
<1>6. ASSUME events # <<>> PROVE n # 0 /\ 1 \in DOMAIN events /\ Identifiers(events) = {c}
  <2>1. n # 0
    BY <1>6, EmptySeq DEF n
  <2>2. 1 \in DOMAIN events
    BY <1>1, <2>1
  <2>3. events[1] \in Elements(events)
    BY <2>2 DEF Elements
  <2> QED
    BY <2>1, <2>2, <2>3 DEF OwnedBy, Identifiers
<1>7. events # <<>> => Identifiers(all) = {c} \cup Identifiers(rest)
  BY <1>2, <1>6 DEF Identifiers
<1>8. ASSUME NEW y \in DOMAIN rest, rest[y].body.t = "dip",
             \A z \in 1 .. y - 1 : ~(rest[z].body.t = "dip" /\ rest[z].body.i = rest[y].body.i)
      PROVE rest[y].body.di \in Delegators(all)
  <2>1. PICK x : x = n + y
    OBVIOUS
  <2>2. x \in DOMAIN all /\ all[x] = rest[y]
    BY <1>1, <1>3, <2>1
  <2>3. ASSUME NEW z \in 1 .. x - 1 PROVE ~(all[z].body.t = "dip" /\ all[z].body.i = all[x].body.i)
    <3>1. CASE z <= n
      <4>1. z \in 1 .. n
        BY <1>1, <2>1, <3>1
      <4> QED
        BY <1>4, <1>5, <2>2, <4>1
    <3>2. CASE ~(z <= n)
      <4>1. z - n \in 1 .. y - 1 /\ z \in 1 .. n + Len(rest)
        BY <1>1, <2>1, <3>2
      <4>2. all[z] = rest[z - n]
        BY <1>3, <3>2, <4>1
      <4> QED
        BY <1>8, <2>2, <4>1, <4>2
    <3> QED
      BY <3>1, <3>2
  <2> QED
    BY <1>8, <2>2, <2>3 DEF Delegators
<1>9. Delegators(rest) \subseteq Delegators(all)
  <2> SUFFICES ASSUME NEW d \in Delegators(rest) PROVE d \in Delegators(all)
    OBVIOUS
  <2>1. PICK y \in DOMAIN rest :
          /\ rest[y].body.t = "dip" /\ d = rest[y].body.di
          /\ \A z \in 1 .. y - 1 : ~(rest[z].body.t = "dip" /\ rest[z].body.i = rest[y].body.i)
    BY DEF Delegators
  <2> QED
    BY <1>8, <2>1
<1>10. ASSUME events # <<>>, events[1].body.t = "dip" PROVE events[1].body.di \in Delegators(all)
  <2>1. 1 \in DOMAIN all /\ all[1] = events[1]
    BY <1>1, <1>3, <1>6, <1>10
  <2>2. 1 .. 1 - 1 = {}
    OBVIOUS
  <2> QED
    BY <1>10, <2>1, <2>2 DEF Delegators
<1> QED
  BY <1>2, <1>7, <1>9, <1>10 DEF all

\* A walk from c has key events of c and of others that somebody in it names as delegator,
\* and of nobody visited before.
Walked(idx, list, visited, c) ==
    /\ list \in Seq(KelOf(idx)) /\ list # <<>>
    /\ c \in Identifiers(list)
    /\ Identifiers(list) \subseteq AidsOf(idx) \ visited
    /\ Identifiers(list) \subseteq {c} \cup Delegators(list)

\* One step of the walk.
LEMMA WalkedStep ==
    ASSUME NEW idx, Indexed(idx), Numbered(idx), NEW chain, NEW visited \in SUBSET AidsOf(idx),
           NEW c \in AidsOf(idx) \ visited,
           \A d \in AidsOf(idx) \ (visited \cup {c}) :
               Walked(idx, chain[visited \cup {c}][d], visited \cup {c}, d)
    PROVE Walked(idx, Walk(idx, chain, visited)[c], visited, c)
<1>1. PICK events : events = OwnKeyEvents(idx, c)
  OBVIOUS
<1>2. PICK K : K = KelOf(idx)
  OBVIOUS
<1>3. events \in Seq(K) /\ events # <<>> /\ OwnedBy(c, events)
  BY <1>1, <1>2, OwnKeyEventsOf
<1>4. PICK d : d = events[1].body.di
  OBVIOUS
<1>5. PICK rest : rest = IF events[1].body.t = "dip" /\ d \in AidsOf(idx) \ (visited \cup {c})
                         THEN chain[visited \cup {c}][d] ELSE <<>>
  OBVIOUS
<1>6. Walk(idx, chain, visited)[c] = events \o rest
  BY <1>1, <1>4, <1>5 DEF Walk
<1>0. Identifiers(<<>>) = {}
  BY DEF Identifiers, Elements
<1>7. CASE events[1].body.t = "dip" /\ d \in AidsOf(idx) \ (visited \cup {c})
  <2>1. Walked(idx, rest, visited \cup {c}, d)
    BY <1>5, <1>7
  <2>2. /\ rest \in Seq(K) /\ c \notin Identifiers(rest)
        /\ Identifiers(rest) \subseteq AidsOf(idx) \ (visited \cup {c})
        /\ Identifiers(rest) \subseteq {d} \cup Delegators(rest)
    BY <1>2, <2>1 DEF Walked
  <2>3. PICK all : all = events \o rest
    OBVIOUS
  <2>4. /\ all \in Seq(K)
        /\ Identifiers(all) = {c} \cup Identifiers(rest)
        /\ Delegators(rest) \subseteq Delegators(all)
        /\ d \in Delegators(all)
    BY <1>3, <1>4, <1>7, <2>2, <2>3, PrependedDelegators
  <2>5. all # <<>>
    BY <1>0, <2>4
  <2>6. Walked(idx, all, visited, c)
    BY <1>2, <2>2, <2>4, <2>5 DEF Walked
  <2> QED
    BY <1>6, <2>3, <2>6
<1>8. CASE ~(events[1].body.t = "dip" /\ d \in AidsOf(idx) \ (visited \cup {c}))
  <2>1. rest = <<>> /\ rest \in Seq(K) /\ Identifiers(rest) = {} /\ c \notin Identifiers(rest)
    BY <1>0, <1>5, <1>8, EmptySeq
  <2>2. PICK all : all = events \o rest
    OBVIOUS
  <2>3. rest \in Seq(K) /\ c \notin Identifiers(rest)
    BY <2>1
  <2>4. all \in Seq(K) /\ Identifiers(all) = {c} \cup Identifiers(rest)
    BY <1>3, <2>2, <2>3, PrependedDelegators
  <2>5. all # <<>>
    BY <1>0, <2>4
  <2>6. Walked(idx, all, visited, c)
    BY <1>2, <2>1, <2>4, <2>5 DEF Walked
  <2> QED
    BY <1>6, <2>2, <2>6
<1> QED
  BY <1>7, <1>8

\* What keyEvents returns: nobody but the identifier itself can be the leaf.
LEMMA KeyEventsWalked ==
    ASSUME NEW idx, Indexed(idx), Numbered(idx), NEW aid \in AidsOf(idx)
    PROVE Walked(idx, KeyEventsOf(idx, aid), {}, aid)
<1> DEFINE ids == AidsOf(idx)
<1>1. PICK chain :
        /\ KeyEventsOf(idx, aid) = chain[{}][aid]
        /\ \A visited \in SUBSET ids : chain[visited] = Walk(idx, chain, visited)
  BY WalkRecursion
<1> DEFINE S == {n \in Nat : \A v \in SUBSET ids : Cardinality(ids \ v) <= n =>
                    \A c \in ids \ v : Walked(idx, chain[v][c], v, c)}
<1>2. IsFiniteSet(ids) /\ Cardinality(ids) \in Nat
  BY AidsFinite
<1>3. \A v \in SUBSET ids : /\ IsFiniteSet(ids \ v) /\ Cardinality(ids \ v) \in Nat
                            /\ Cardinality(ids \ v) <= Cardinality(ids)
  BY <1>2, FS_Subset, FS_CardinalityType
<1>4. 0 \in S
  <2> SUFFICES ASSUME NEW v \in SUBSET ids, Cardinality(ids \ v) <= 0, NEW c \in ids \ v PROVE FALSE
    OBVIOUS
  <2>1. PICK left : left = ids \ v /\ IsFiniteSet(left) /\ Cardinality(left) = 0
    BY <1>3
  <2> QED
    BY <2>1, FS_EmptySet
<1>5. ASSUME NEW n \in Nat, n \in S PROVE n + 1 \in S
  <2> SUFFICES ASSUME NEW v \in SUBSET ids, Cardinality(ids \ v) <= n + 1, NEW c \in ids \ v
               PROVE Walked(idx, chain[v][c], v, c)
    OBVIOUS
  <2>1. PICK w : w = v \cup {c} /\ w \in SUBSET ids
    OBVIOUS
  <2>2. Cardinality(ids \ w) <= n
    <3>1. PICK rest : rest = ids \ v /\ IsFiniteSet(rest) /\ c \in rest /\ Cardinality(rest) \in Nat
                     /\ Cardinality(rest) <= n + 1
      BY <1>3
    <3>2. PICK less : less = rest \ {c} /\ less = ids \ w
      BY <2>1, <3>1
    <3>3. Cardinality(less) = Cardinality(rest) - 1
      BY <3>1, <3>2, FS_RemoveElement
    <3>4. Cardinality(less) <= n
      BY <3>1, <3>3
    <3> QED
      BY <3>2, <3>4
  <2>3. \A d \in ids \ w : Walked(idx, chain[w][d], w, d)
    BY <1>5, <2>1, <2>2
  <2>4. Walked(idx, Walk(idx, chain, v)[c], v, c)
    BY <2>1, <2>3, WalkedStep
  <2> QED
    BY <1>1, <2>4
<1> HIDE DEF S
<1>6. Cardinality(ids) \in S
  BY <1>2, <1>4, <1>5, SetInduction
<1>7. {} \in SUBSET ids /\ ids \ {} = ids
  OBVIOUS
<1>8. Walked(idx, chain[{}][aid], {}, aid)
  BY <1>2, <1>6, <1>7 DEF S
<1> QED
  BY <1>1, <1>8

\* The log of an owner, made from its own events of the index.
LEMMA OwnersFrom ==
    ASSUME NEW idx, \A m \in KelOf(idx) : Genuine(m), NEW aid,
           NEW events \in Seq(KelOf(idx)), events # <<>>, OwnedBy(aid, events),
           NEW opts, opts.allowPartiallySigned = FALSE, NEW log \in From(events, opts)
    PROVE /\ log.state.identifier = aid
          /\ \A m \in Elements(log.events) : m.body.i = aid
          /\ Published(log.events[1].body) => \A m \in Elements(log.events) : Published(m.body)
<1>1. PICK M : M = {m \in KelOf(idx) : m.body.i = aid}
  OBVIOUS
<1>2. Len(events) \in Nat /\ DOMAIN events = 1 .. Len(events) /\ Len(events) # 0
  BY LenProperties, EmptySeq
<1>3. \A x \in DOMAIN events : events[x] \in M
  BY <1>1, <1>2, ElementOfSeq DEF OwnedBy, Elements
<1>4. events \in Seq(M)
  <2>1. events \in [1 .. Len(events) -> M]
    BY <1>2, <1>3, LenProperties
  <2> QED
    BY <1>2, <2>1, SeqDef
<1>5. \A m \in M : Genuine(m) /\ m.body.i = aid
  BY <1>1
<1>6. Published(events[1].body) => \A m \in Elements(log.events) : Published(m.body)
  BY <1>4, <1>5, FromPublished
<1>7. IsLogOf(log, events, opts)
  BY FromIsLog
<1>8. log.events = events /\ log.state.identifier = events[1].body.i
  BY <1>7 DEF IsLogOf
<1>9. 1 \in DOMAIN events
  BY <1>2
<1> QED
  BY <1>3, <1>5, <1>6, <1>8, <1>9 DEF Elements, OwnedBy

\* buildFor makes a log of an identifier from its own events.
LEMMA BuiltFrom ==
    ASSUME NEW messages, NEW opts, NEW built, NEW n \in Nat,
           built[n] = Built(messages, opts, built, n), NEW id \in Identifiers(messages), NEW log \in built[n][id]
    PROVE \E delegator : log \in From(EventsOf(messages, id), [opts EXCEPT !.delegator = delegator])
<1>1. PICK events, other : events = EventsOf(messages, id) /\ other = events[1].body.di
  OBVIOUS
<1>2. built[n][id] =
          IF events[1].body.t = "dip" /\ other \in Identifiers(messages)
          THEN IF n = 0 THEN {}
               ELSE UNION {From(events, [opts EXCEPT !.delegator = l]) : l \in built[n - 1][other]}
          ELSE From(events, [opts EXCEPT !.delegator = Null])
  BY <1>1 DEF Built
<1>3. CASE events[1].body.t = "dip" /\ other \in Identifiers(messages)
  <2>1. n # 0
    BY <1>2, <1>3
  <2>2. PICK l \in built[n - 1][other] : log \in From(events, [opts EXCEPT !.delegator = l])
    BY <1>2, <1>3, <2>1
  <2> QED
    BY <1>1, <2>2
<1>4. CASE ~(events[1].body.t = "dip" /\ other \in Identifiers(messages))
  BY <1>1, <1>2, <1>4
<1> QED
  BY <1>3, <1>4

\* What the index has of somebody's log, if it makes one, its owner has published, if it
\* has published what the log begins with.
LEMMA IssuerLogPublished ==
    ASSUME NEW idx, Indexed(idx), \A m \in KelOf(idx) : Genuine(m), NEW aid, NEW log \in IssuerLog(idx, aid)
    PROVE /\ log.state.identifier = aid
          /\ \A m \in Elements(log.events) : m.body.i = aid
          /\ Published(log.events[1].body) => \A m \in Elements(log.events) : Published(m.body)
<1>1. PICK messages : messages = KeyEventsOf(idx, aid)
  OBVIOUS
<1>2. messages # <<>> /\ log \in FromMessages(messages, Strict)
  BY <1>1 DEF IssuerLog
<1>3. aid \in AidsOf(idx)
  BY <1>1, <1>2 DEF KeyEventsOf
<1>4. Numbered(idx)
  BY DEF Numbered, Genuine
<1>5. Walked(idx, messages, {}, aid)
  BY <1>1, <1>3, <1>4, KeyEventsWalked
<1>6. PICK K : K = KelOf(idx)
  OBVIOUS
<1>7. /\ messages \in Seq(K) /\ aid \in Identifiers(messages)
      /\ Identifiers(messages) \subseteq {aid} \cup Delegators(messages)
  BY <1>5, <1>6 DEF Walked
<1>8. Strict.allowPartiallySigned = FALSE /\ "delegator" \in DOMAIN Strict
  BY DEF Strict, Options
<1>9. CASE Cardinality(Identifiers(messages)) = 1
  <2>1. PICK id : Identifiers(messages) = {id}
    BY <1>7, <1>9, IdentifiersFinite, FS_Singleton
  <2>2. OwnedBy(aid, messages)
    BY <1>7, <2>1 DEF Identifiers, OwnedBy
  <2>3. log \in From(messages, Strict)
    BY <1>2, <1>9 DEF FromMessages
  <2> QED
    BY <1>2, <1>6, <1>7, <1>8, <2>2, <2>3, OwnersFrom
<1>10. CASE Cardinality(Identifiers(messages)) # 1
  <2>1. PICK leaf \in Leaves(messages) : log \in BuildFor(messages, leaf, Strict)
    BY <1>2, <1>10 DEF FromMessages
  <2>2. leaf = aid
    BY <1>7, <2>1 DEF Leaves
  <2>3. PICK n \in Nat : n = Cardinality(Identifiers(messages))
    BY <1>7, IdentifiersFinite
  <2>4. PICK built :
          /\ BuildFor(messages, aid, Strict) = built[n][aid]
          /\ \A link \in 0 .. n : built[link] = Built(messages, Strict, built, link)
    BY <2>3, BuildRecursion
  <2>5. n \in 0 .. n
    OBVIOUS
  <2>6. built[n] = Built(messages, Strict, built, n) /\ log \in built[n][aid]
    BY <2>1, <2>2, <2>4, <2>5
  <2>7. PICK delegator : log \in From(EventsOf(messages, aid), [Strict EXCEPT !.delegator = delegator])
    BY <1>7, <2>6, BuiltFrom
  <2>8. PICK events, opts : events = EventsOf(messages, aid) /\ opts = [Strict EXCEPT !.delegator = delegator]
    OBVIOUS
  <2>9. /\ events \in Seq(K) /\ OwnedBy(aid, events)
    BY <1>7, <2>8, EventsOfMessages DEF OwnedBy
  <2>10. events # <<>>
    BY <1>7, <2>8, EventsOfSome
  <2>11. opts.allowPartiallySigned = FALSE
    BY <1>8, <2>8 DEF Strict, Options
  <2> QED
    BY <1>6, <2>7, <2>8, <2>9, <2>10, <2>11, OwnersFrom
<1> QED
  BY <1>9, <1>10

-----------------------------------------------------------------------------
(* verify: what is reported issued. *)

\* The last event of a kind is among the events, and there is one if there is any.
LEMMA LastFound ==
    ASSUME NEW M, NEW events \in Seq(M), NEW t, NEW i
    PROVE /\ \A m \in LastOf(events, t, i) : m \in Elements(events) /\ m.body.t = t /\ m.body.i = i
          /\ LastOf(events, t, i) = {} => \A m \in Elements(events) : ~(m.body.t = t /\ m.body.i = i)
          /\ \A m, o \in LastOf(events, t, i) : m = o
<1> DEFINE found == {x \in DOMAIN events : events[x].body.t = t /\ events[x].body.i = i}
           last == {z \in found : \A y \in found : y <= z}
<1>1. Len(events) \in Nat /\ DOMAIN events = 1 .. Len(events)
  BY LenProperties
<1>2. LastOf(events, t, i) = {events[x] : x \in last}
  BY DEF LastOf
<1>3. \A x \in found : events[x] \in Elements(events) /\ events[x].body.t = t /\ events[x].body.i = i
  BY DEF Elements
<1>4. \A m \in Elements(events) : m.body.t = t /\ m.body.i = i => \E x \in found : m = events[x]
  BY DEF Elements
<1>5. found \subseteq 1 .. Len(events)
  BY <1>1
<1> HIDE DEF found
<1>6. ASSUME found # {} PROVE last # {}
  <2> DEFINE J == {Len(events) - x : x \in found}
  <2>1. \A x \in found : Len(events) - x \in J
    OBVIOUS
  <2>2. \A j \in J : \E x \in found : j = Len(events) - x
    OBVIOUS
  <2> HIDE DEF J
  <2>3. J \in SUBSET Nat /\ J # {}
    <3>1. \A x \in found : Len(events) - x \in Nat
      BY <1>1, <1>5
    <3> QED
      BY <1>6, <2>1, <2>2, <3>1
  <2>4. PICK j \in J : \A y \in J : j <= y
    BY <2>3, NatMin
  <2>5. PICK x \in found : j = Len(events) - x
    BY <2>2
  <2>6. ASSUME NEW y \in found PROVE y <= x
    <3>1. Len(events) - x <= Len(events) - y
      BY <2>1, <2>4, <2>5
    <3>2. x \in Nat /\ y \in Nat
      BY <1>5
    <3> QED
      BY <1>1, <3>1, <3>2
  <2> QED
    BY <2>6
<1>7. \A x, y \in last : x = y
  <2> SUFFICES ASSUME NEW x \in last, NEW y \in last PROVE x = y
    OBVIOUS
  <2>1. x <= y /\ y <= x /\ x \in Nat /\ y \in Nat
    BY <1>5
  <2> QED
    BY <2>1
<1> HIDE DEF last
<1>8. \A x \in last : x \in found
  BY DEF last
<1>9. \A m \in LastOf(events, t, i) : \E x \in last : m = events[x]
  BY <1>2
<1>10. LastOf(events, t, i) = {} => \A m \in Elements(events) : ~(m.body.t = t /\ m.body.i = i)
  <2>1. LastOf(events, t, i) = {} => last = {}
    BY <1>2
  <2> QED
    BY <1>4, <1>6, <2>1
<1>11. \A m, o \in LastOf(events, t, i) : m = o
  BY <1>7, <1>9
<1>12. \A m \in LastOf(events, t, i) : m \in Elements(events) /\ m.body.t = t /\ m.body.i = i
  BY <1>3, <1>8, <1>9
<1> QED
  BY <1>10, <1>11, <1>12

\* The registry events of an index are in it.
LEMMA TransactionEventsOf ==
    ASSUME NEW idx, Indexed(idx), NEW registry
    PROVE /\ TransactionEvents(idx, registry) \in Seq(Elements(idx))
          /\ \A m \in Elements(idx) : m.body.t = "rev" /\ m.body.ri = registry
                => m \in Elements(TransactionEvents(idx, registry))
<1> DEFINE I == {x \in DOMAIN idx :
                    LET body == idx[x].body IN
                        /\ IsTelEventType(body.t)
                        /\ registry = IF body.t = "vcp" THEN body.i ELSE body.ri}
<1>1. I \in SUBSET (DOMAIN idx) /\ idx \in Seq(Elements(idx))
  BY DEF Indexed
<1>2. TransactionEvents(idx, registry) = Selected(idx, I)
  BY DEF TransactionEvents
<1>3. \A x \in DOMAIN idx : idx[x].body.t = "rev" /\ idx[x].body.ri = registry => x \in I
  BY DEF IsTelEventType
<1> HIDE DEF I
<1>4. /\ Selected(idx, I) \in Seq(Elements(idx))
      /\ Elements(Selected(idx, I)) = {idx[x] : x \in I}
  BY <1>1, SelectedMembers
<1> QED
  BY <1>2, <1>3, <1>4 DEF Elements

\* An anchor that verifies is a seal in an event of the log.
LEMMA SealFound ==
    ASSUME NEW m, NEW log, VerifyAnchor(m, log)
    PROVE \E event \in Elements(log.events) : Anchors(event, EventRef(m.body))
<1> DEFINE applicable == {h \in m.hints : h.prefix \in {Null, log.state.identifier}}
<1>1. IF applicable = {}
      THEN \E event \in Elements(log.events) : Anchors(event, EventRef(m.body))
      ELSE \A hint \in applicable : \E event \in Elements(log.events) :
               HintedEvent(log.events, hint, event) /\ Anchors(event, EventRef(m.body))
  BY DEF VerifyAnchor, FindSealAnchor
<1> HIDE DEF applicable
<1> QED
  BY <1>1

\* An anchor check that is passed has found the seal in what the issuer has published, if the
\* log it looked in is the issuer's.
LEMMA AnchorPublished ==
    ASSUME NEW idx, Indexed(idx), \A m \in KelOf(idx) : Genuine(m), NEW aid,
           NEW issuer, issuer = {} \/ issuer = IssuerLog(idx, aid),
           \A log \in issuer : Published(log.events[1].body),
           NEW events, NEW prerequisite, AnchorCheck(events, issuer, prerequisite) = "passed"
    PROVE \A m \in events : \E event \in Elements(Truth[aid]) : Anchors(event, EventRef(m.body))
<1>1. issuer # {} /\ events # {} /\ prerequisite = "passed" /\ \A m \in events, log \in issuer : VerifyAnchor(m, log)
  <2>1. ~(issuer = {} \/ events = {} \/ prerequisite # "passed")
    BY DEF AnchorCheck
  <2>2. Check(\A m \in events, log \in issuer : VerifyAnchor(m, log)) = "passed"
    BY <2>1 DEF AnchorCheck
  <2> QED
    BY <2>1, <2>2 DEF Check
<1>2. PICK log \in IssuerLog(idx, aid) :
        Published(log.events[1].body) /\ \A m \in events : VerifyAnchor(m, log)
  BY <1>1
<1>3. \A m \in Elements(log.events) : m.body.i = aid /\ Published(m.body)
  BY <1>2, IssuerLogPublished
<1>4. ASSUME NEW m \in events PROVE \E event \in Elements(Truth[aid]) : Anchors(event, EventRef(m.body))
  <2>1. PICK event \in Elements(log.events) : Anchors(event, EventRef(m.body))
    BY <1>2, SealFound
  <2>2. PICK e \in Elements(Truth[aid]) : e.body = event.body
    BY <1>3 DEF Published
  <2>3. Anchors(e, EventRef(m.body))
    BY <2>1, <2>2 DEF Anchors
  <2> QED
    BY <2>3
<1> QED
  BY <1>4

\* A recorded status is the one the index and the logs give.
RightStatus(said) ==
    LET m == CredentialOf(index, said) IN
    results[said].status = Status(index, m.body, Checks(index, LogOf(m.body.i), m))

\* The key events of the index are genuine, the logs are made from it, and so is every
\* status.
StatusIInv ==
    /\ \A m \in KelOf(index) : Genuine(m)
    /\ pc = "collecting" => logs = <<>>
    /\ pc \in {"collecting", "collected"} => results = <<>>
    /\ \A aid \in DOMAIN logs : logs[aid] = IssuerLog(index, aid)
    /\ \A said \in DOMAIN results : RightStatus(said)

\* Nothing is collected at first.
LEMMA InitStatus == VerifyInit => StatusIInv
<1> SUFFICES ASSUME VerifyInit PROVE StatusIInv
  OBVIOUS
<1>1. index = <<>> /\ logs = <<>> /\ results = <<>>
  BY DEF VerifyInit
<1>2. KelOf(index) = {} /\ DOMAIN logs = {} /\ DOMAIN results = {}
  BY <1>1 DEF KelOf, Elements
<1> QED
  BY <1>1, <1>2 DEF StatusIInv

\* collect makes an index of genuine key events.
LEMMA CollectStatus ==
    ASSUME VerifyIInv, StatusIInv, Collect
    PROVE StatusIInv'
<1>1. PICK messages : messages = FlattenSeq(pieces)
  OBVIOUS
<1>2. messages \in Seq(SentMessages)
  <2>1. pieces \in Seq(Seq(SentMessages))
    BY SentCopies, SeqDef DEF VerifyIInv
  <2> QED
    BY <1>1, <2>1, FlattenIsSequence
<1>3. index' = Flatten(messages) /\ logs' = <<>> /\ results' = <<>> /\ pc' = "collected"
  BY <1>1 DEF Collect, StatusIInv
<1>4. \A m \in KelOf(index') : Genuine(m)
  BY <1>2, <1>3, MergedGenuine DEF KelOf
<1>5. DOMAIN logs' = {} /\ DOMAIN results' = {}
  BY <1>3
<1> QED
  BY <1>3, <1>4, <1>5 DEF StatusIInv

\* A result is recorded with the status that the index and the logs give.
LEMMA RecordStatus ==
    ASSUME NEW said, NEW edgesHold, Record(said, edgesHold), index' = index, logs' = logs,
           \A s \in DOMAIN results : RightStatus(s)
    PROVE \A s \in DOMAIN results' : RightStatus(s)'
<1>1. PICK m : m = CredentialOf(index, said)
  OBVIOUS
<1>2. results' = [s \in DOMAIN results \cup {said} |->
                     IF s = said THEN Verification(index, LogOf(m.body.i), m, edgesHold) ELSE results[s]]
  BY <1>1 DEF Record
<1>3. \A aid : LogOf(aid)' = LogOf(aid)
  BY DEF LogOf
<1>4. Verification(index, LogOf(m.body.i), m, edgesHold).status
        = Status(index, m.body, Checks(index, LogOf(m.body.i), m))
  BY DEF Verification
<1>5. ASSUME NEW s \in DOMAIN results'
      PROVE results'[s].status = Status(index, CredentialOf(index, s).body,
                Checks(index, LogOf(CredentialOf(index, s).body.i), CredentialOf(index, s)))
  <2>1. CASE s = said
    BY <1>1, <1>2, <1>4, <2>1
  <2>2. CASE s # said
    BY <1>2, <2>2 DEF RightStatus
  <2> QED
    BY <2>1, <2>2
<1> QED
  BY <1>3, <1>5 DEF RightStatus

\* A step of verification leaves the index and the logs, and records at most one result.
LEMMA StatusStep ==
    ASSUME StatusIInv, index' = index, logs' = logs, pc' \notin {"collecting", "collected"},
           results' = results \/ \E said, edgesHold : Record(said, edgesHold)
    PROVE StatusIInv'
<1>1. \A s \in DOMAIN results' : RightStatus(s)'
  <2>1. CASE results' = results
    <3>1. \A aid : LogOf(aid)' = LogOf(aid)
      BY DEF LogOf
    <3> QED
      BY <2>1, <3>1 DEF StatusIInv, RightStatus
  <2>2. CASE \E said, edgesHold : Record(said, edgesHold)
    BY <2>2, RecordStatus DEF StatusIInv
  <2> QED
    BY <2>1, <2>2
<1> QED
  BY <1>1 DEF StatusIInv

\* Every step keeps the statuses right.
LEMMA NextStatus == VerifyIInv /\ StatusIInv /\ [VerifyNext]_verifyVars => StatusIInv'
<1> SUFFICES ASSUME VerifyIInv, StatusIInv, [VerifyNext]_verifyVars PROVE StatusIInv'
  OBVIOUS
<1>1. CASE UNCHANGED verifyVars \/ \E piece \in Pieces : Receive(piece)
  <2>1. pc' = pc /\ index' = index /\ logs' = logs /\ results' = results
    BY <1>1 DEF Receive, verifyVars
  <2>2. \A aid : LogOf(aid)' = LogOf(aid)
    BY <2>1 DEF LogOf
  <2> QED
    BY <2>1, <2>2 DEF StatusIInv, RightStatus
<1>2. CASE Collect
  BY <1>2, CollectStatus
<1>3. CASE VerifyIdentifiers
  <2>1. /\ index' = index /\ results' = <<>> /\ pc' = "verifying"
        /\ logs' = [aid \in AidsOf(index) |-> IssuerLog(index, aid)]
    BY <1>3 DEF VerifyIdentifiers, StatusIInv
  <2>2. DOMAIN results' = {} /\ \A aid \in DOMAIN logs' : logs'[aid] = IssuerLog(index, aid)
    BY <2>1
  <2> QED
    BY <2>1, <2>2 DEF StatusIInv
<1>4. CASE NextCredential \/ EdgeIsOpen \/ EdgeIsResolved \/ ResolveEdge \/ EdgesVerified \/ Report
  <2>1. index' = index /\ logs' = logs /\ pc' \notin {"collecting", "collected"}
    BY <1>4 DEF NextCredential, EdgeIsOpen, EdgeIsResolved, ResolveEdge, EdgesVerified, Report, NextEdge, AtEdge
  <2>2. results' = results \/ \E said, edgesHold : Record(said, edgesHold)
    BY <1>4 DEF NextCredential, EdgeIsOpen, EdgeIsResolved, ResolveEdge, EdgesVerified, Report, NextEdge, Resolve
  <2> QED
    BY <2>1, <2>2, StatusStep
<1> QED
  BY <1>1, <1>2, <1>3, <1>4 DEF VerifyNext, Finished

\* A credential that the index shows issued is issued by an intact event, which its issuer
\* has sealed if the log is the issuer's, and not revoked.
LEMMA IssuedSealed ==
    ASSUME NEW idx, Indexed(idx), \A m \in KelOf(idx) : Genuine(m), NEW m,
           NEW issuer, issuer = {} \/ issuer = IssuerLog(idx, m.body.i),
           Status(idx, m.body, Checks(idx, issuer, m)) = "issued"
    PROVE /\ \E iss \in Elements(TransactionEvents(idx, m.body.ri)) :
                /\ iss.body.t = "iss" /\ iss.body.i = m.body.d /\ iss.body.intact
                /\ (\A log \in issuer : Published(log.events[1].body)) =>
                      \E event \in Elements(Truth[m.body.i]) : Anchors(event, EventRef(iss.body))
          /\ \A o \in Elements(idx) : ~(o.body.t = "rev" /\ o.body.i = m.body.d /\ o.body.ri = m.body.ri)
<1>1. PICK checks : checks = Checks(idx, issuer, m)
  OBVIOUS
<1>2. Status(idx, m.body, checks) = "issued"
  BY <1>1
<1>3. RevocationOf(idx, m.body) = {} /\ checks.issuance = "passed" /\ checks.issuanceAnchor = "passed"
  BY <1>2 DEF Status
<1>4. PICK events : events = IssuanceOf(idx, m.body)
  OBVIOUS
<1>5. IssuanceCheck(idx, m) = "passed" /\ AnchorCheck(events, issuer, IssuanceCheck(idx, m)) = "passed"
  BY <1>1, <1>3, <1>4 DEF Checks
<1>6. PICK iss \in events : iss.body.intact
  BY <1>4, <1>5 DEF IssuanceCheck, Check
<1>7. (\A log \in issuer : Published(log.events[1].body)) =>
          \E event \in Elements(Truth[m.body.i]) : Anchors(event, EventRef(iss.body))
  BY <1>5, <1>6, AnchorPublished
<1>8. PICK registry : registry = TransactionEvents(idx, m.body.ri)
  OBVIOUS
<1>9. /\ registry \in Seq(Elements(idx))
      /\ \A o \in Elements(idx) : o.body.t = "rev" /\ o.body.ri = m.body.ri => o \in Elements(registry)
  BY <1>8, TransactionEventsOf
<1>10. events = LastOf(registry, "iss", m.body.d) /\ LastOf(registry, "rev", m.body.d) = {}
  BY <1>3, <1>4, <1>8 DEF IssuanceOf, RevocationOf
<1>11. iss \in Elements(registry) /\ iss.body.t = "iss" /\ iss.body.i = m.body.d
  BY <1>6, <1>9, <1>10, LastFound
<1>12. \A o \in Elements(registry) : ~(o.body.t = "rev" /\ o.body.i = m.body.d)
  <2>1. LastOf(registry, "rev", m.body.d) = {} =>
            \A o \in Elements(registry) : ~(o.body.t = "rev" /\ o.body.i = m.body.d)
    BY <1>9, LastFound
  <2> QED
    BY <1>10, <2>1
<1> QED
  BY <1>6, <1>7, <1>8, <1>9, <1>11, <1>12

\* verify: a credential is reported issued only if the stream has an intact issuance of it and
\* no revocation. The issuer has sealed that issuance, whatever else is in the stream and
\* however often, if the log made for the issuer begins with an event the issuer published
\* (StartsTrue): the code does not see to that itself. Of others only this is assumed, that
\* they do not sign with the owner's keys (TruthAssumption).
THEOREM SealedByIssuer == VerifySpec => []IssuedIsSealed
<1>1. VerifySpec => []StatusIInv
  BY InitStatus, NextStatus, VerifyInvariant, PTL DEF VerifySpec
<1>2. VerifyIInv /\ StatusIInv => IssuedIsSealed
  <2> SUFFICES ASSUME VerifyIInv, StatusIInv, NEW said \in DOMAIN results, results[said].status = "issued"
               PROVE LET c == CredentialOf(index, said).body IN
                     /\ StartsTrue(c.i) =>
                           \E iss \in Elements(TransactionEvents(index, c.ri)) :
                              /\ iss.body.t = "iss" /\ iss.body.i = said /\ iss.body.intact
                              /\ \E event \in Elements(Truth[c.i]) : Anchors(event, EventRef(iss.body))
                     /\ \A m \in Elements(index) : ~(m.body.t = "rev" /\ m.body.i = said /\ m.body.ri = c.ri)
    BY DEF IssuedIsSealed
  <2>1. Indexed(index) /\ said \in Saids(index)
    BY DEF VerifyIInv, ResultsJudged
  <2>2. PICK m : m = CredentialOf(index, said) /\ m.body.d = said
    BY <2>1, CredentialsIndexed
  <2>3. PICK issuer : issuer = LogOf(m.body.i)
    OBVIOUS
  <2>4. issuer = {} \/ issuer = IssuerLog(index, m.body.i)
    BY <2>3 DEF LogOf, StatusIInv
  <2>5. Status(index, m.body, Checks(index, issuer, m)) = "issued"
    BY <2>2, <2>3 DEF StatusIInv, RightStatus
  <2>6. \A k \in KelOf(index) : Genuine(k)
    BY DEF StatusIInv
  <2>7. /\ \E iss \in Elements(TransactionEvents(index, m.body.ri)) :
              /\ iss.body.t = "iss" /\ iss.body.i = m.body.d /\ iss.body.intact
              /\ (\A log \in issuer : Published(log.events[1].body)) =>
                    \E event \in Elements(Truth[m.body.i]) : Anchors(event, EventRef(iss.body))
        /\ \A o \in Elements(index) : ~(o.body.t = "rev" /\ o.body.i = m.body.d /\ o.body.ri = m.body.ri)
    BY <2>1, <2>4, <2>5, <2>6, IssuedSealed
  <2>8. StartsTrue(m.body.i) => \A log \in issuer : Published(log.events[1].body)
    BY <2>3 DEF StartsTrue
  <2> QED
    BY <2>2, <2>7, <2>8
<1> QED
  BY <1>1, <1>2, VerifyInvariant, PTL

-----------------------------------------------------------------------------
(* verify: what the order of the stream leaves alone. *)

\* Lists of the same elements, which agree under each index, are pooled alike.
LEMMA UnionAgrees ==
    ASSUME NEW L, NEW lists \in Seq(L), NEW others \in Seq(L), Elements(lists) = Elements(others),
           \A f, g \in Elements(lists) : \A z \in DOMAIN f \cap DOMAIN g : f[z] = g[z]
    PROVE Union(lists) = Union(others)
<1>1. PICK u, v : u = Union(lists) /\ v = Union(others)
  OBVIOUS
<1>2. DOMAIN u = UNION {DOMAIN f : f \in Elements(lists)} /\ u = [z \in DOMAIN u |-> u[z]]
  <2> DEFINE Value(z) == lists[SelectInSeq(lists, LAMBDA list : z \in DOMAIN list)][z]
             D == UNION {DOMAIN lists[x] : x \in DOMAIN lists}
  <2>1. u = [z \in D |-> Value(z)]
    BY <1>1 DEF Union
  <2>2. D = UNION {DOMAIN f : f \in Elements(lists)}
    BY DEF Elements
  <2> HIDE DEF Value, D
  <2>3. DOMAIN u = D /\ \A z \in D : u[z] = Value(z)
    BY <2>1
  <2>4. u = [z \in D |-> u[z]]
    BY <2>1, <2>3
  <2> QED
    BY <2>2, <2>3, <2>4
<1>3. DOMAIN v = UNION {DOMAIN f : f \in Elements(others)} /\ v = [z \in DOMAIN v |-> v[z]]
  <2> DEFINE Value(z) == others[SelectInSeq(others, LAMBDA list : z \in DOMAIN list)][z]
             D == UNION {DOMAIN others[x] : x \in DOMAIN others}
  <2>1. v = [z \in D |-> Value(z)]
    BY <1>1 DEF Union
  <2>2. D = UNION {DOMAIN f : f \in Elements(others)}
    BY DEF Elements
  <2> HIDE DEF Value, D
  <2>3. DOMAIN v = D /\ \A z \in D : v[z] = Value(z)
    BY <2>1
  <2>4. v = [z \in D |-> v[z]]
    BY <2>1, <2>3
  <2> QED
    BY <2>2, <2>3, <2>4
<1>4. ASSUME NEW z \in DOMAIN u PROVE u[z] = v[z]
  <2>1. PICK x \in DOMAIN lists : z \in DOMAIN lists[x] /\ u[z] = lists[x][z]
    BY <1>1, UnionTakes
  <2>2. PICK y \in DOMAIN others : z \in DOMAIN others[y] /\ v[z] = others[y][z]
    BY <1>1, <1>2, <1>3, UnionTakes
  <2>3. lists[x] \in Elements(lists) /\ others[y] \in Elements(lists)
    BY DEF Elements
  <2> QED
    BY <2>1, <2>2, <2>3
<1> QED
  BY <1>1, <1>2, <1>3, <1>4

\* The first set that is not empty, where no two such sets differ.
LEMMA FirstPresentIs ==
    ASSUME NEW T, NEW sets \in Seq(T), \A f, g \in Elements(sets) : f = g \/ f = {} \/ g = {}
    PROVE FirstPresent(sets) = UNION Elements(sets)
<1> DEFINE I == {i \in 1 .. Len(sets) : sets[i] # {}}
<1>1. Len(sets) \in Nat /\ DOMAIN sets = 1 .. Len(sets)
  BY LenProperties
<1>2. PICK x : x = SelectInSeq(sets, LAMBDA set : set # {})
  OBVIOUS
<1>3. x = IF I # {} THEN Min(I) ELSE 0
  BY <1>2 DEF SelectInSeq
<1>4. FirstPresent(sets) = IF x = 0 THEN {} ELSE sets[x]
  BY <1>2 DEF FirstPresent
<1>5. CASE I = {}
  <2>1. \A f \in Elements(sets) : f = {}
    BY <1>1, <1>5 DEF Elements
  <2> QED
    BY <1>3, <1>4, <1>5, <2>1
<1>6. CASE I # {}
  <2>1. I \subseteq Nat
    BY <1>1
  <2>2. \A i \in I : i # 0 /\ i \in DOMAIN sets /\ sets[i] # {}
    BY <1>1
  <2> HIDE DEF I
  <2>3. PICK y \in I : \A z \in I : y <= z
    BY <1>6, <2>1, NatMin
  <2>4. Min(I) \in I
    BY <2>3 DEF Min
  <2>5. x # 0 /\ sets[x] # {} /\ sets[x] \in Elements(sets)
    BY <1>3, <1>6, <2>2, <2>4 DEF Elements
  <2>6. \A f \in Elements(sets) : f = sets[x] \/ f = {}
    BY <2>5
  <2>7. UNION Elements(sets) = sets[x]
    BY <2>5, <2>6
  <2> QED
    BY <1>4, <2>5, <2>7
<1> QED
  BY <1>5, <1>6

\* A list of something of each copy, as SelectInSeq and the rest see it.
LEMMA ImageList ==
    ASSUME NEW n \in Nat, NEW f, DOMAIN f = 1 .. n, f = [x \in DOMAIN f |-> f[x]]
    PROVE f \in Seq(Elements(f))
<1>1. f \in [1 .. n -> Elements(f)]
  BY DEF Elements
<1> QED
  BY <1>1, SeqDef

\* Copies that agree make the same message, whichever comes first and however often.
LEMMA MergeAgrees ==
    ASSUME NEW C, NEW copies \in Seq(C), NEW others \in Seq(C), copies # <<>>, others # <<>>,
           Elements(copies) = Elements(others), \A m, o \in Elements(copies) : Agree(m, o)
    PROVE Merge(copies) = Merge(others)
<1>1. /\ Len(copies) \in Nat /\ DOMAIN copies = 1 .. Len(copies) /\ Len(copies) # 0
      /\ Len(others) \in Nat /\ DOMAIN others = 1 .. Len(others) /\ Len(others) # 0
  BY LenProperties, EmptySeq
<1>2. 1 \in DOMAIN copies /\ 1 \in DOMAIN others
  BY <1>1
<1>3. copies[1] \in Elements(copies) /\ others[1] \in Elements(copies)
  BY <1>2 DEF Elements
<1>4. copies[1].body = others[1].body
  BY <1>3 DEF Agree
<1>5. Union([x \in DOMAIN copies |-> SigsOver(copies[1].body, copies[x], copies[x].sigs)])
        = Union([x \in DOMAIN others |-> SigsOver(others[1].body, others[x], others[x].sigs)])
  <2>1. PICK body, f, g :
          /\ body = copies[1].body /\ body = others[1].body
          /\ f = [x \in DOMAIN copies |-> SigsOver(body, copies[x], copies[x].sigs)]
          /\ g = [x \in DOMAIN others |-> SigsOver(body, others[x], others[x].sigs)]
    BY <1>4
  <2>2. /\ Elements(f) = {SigsOver(body, m, m.sigs) : m \in Elements(copies)}
        /\ Elements(g) = {SigsOver(body, m, m.sigs) : m \in Elements(others)}
    BY <2>1 DEF Elements
  <2>3. f \in Seq(Elements(f)) /\ g \in Seq(Elements(f))
    BY <1>1, <2>1, <2>2, ImageList
  <2>4. \A m \in Elements(copies) :
          /\ DOMAIN SigsOver(body, m, m.sigs) = DOMAIN m.sigs
          /\ \A z \in DOMAIN m.sigs : SigsOver(body, m, m.sigs)[z] = m.sigs[z]
    BY <1>3, <2>1 DEF Agree, SigsOver
  <2>5. \A a, b \in Elements(f) : \A z \in DOMAIN a \cap DOMAIN b : a[z] = b[z]
    BY <2>2, <2>4 DEF Agree
  <2>6. Elements(f) = Elements(g)
    BY <2>2
  <2> QED
    BY <2>1, <2>3, <2>5, <2>6, UnionAgrees
<1>6. Union([x \in DOMAIN copies |-> SigsOver(copies[1].body, copies[x], copies[x].wigs)])
        = Union([x \in DOMAIN others |-> SigsOver(others[1].body, others[x], others[x].wigs)])
  <2>1. PICK body, f, g :
          /\ body = copies[1].body /\ body = others[1].body
          /\ f = [x \in DOMAIN copies |-> SigsOver(body, copies[x], copies[x].wigs)]
          /\ g = [x \in DOMAIN others |-> SigsOver(body, others[x], others[x].wigs)]
    BY <1>4
  <2>2. /\ Elements(f) = {SigsOver(body, m, m.wigs) : m \in Elements(copies)}
        /\ Elements(g) = {SigsOver(body, m, m.wigs) : m \in Elements(others)}
    BY <2>1 DEF Elements
  <2>3. f \in Seq(Elements(f)) /\ g \in Seq(Elements(f))
    BY <1>1, <2>1, <2>2, ImageList
  <2>4. \A m \in Elements(copies) :
          /\ DOMAIN SigsOver(body, m, m.wigs) = DOMAIN m.wigs
          /\ \A z \in DOMAIN m.wigs : SigsOver(body, m, m.wigs)[z] = m.wigs[z]
    BY <1>3, <2>1 DEF Agree, SigsOver
  <2>5. \A a, b \in Elements(f) : \A z \in DOMAIN a \cap DOMAIN b : a[z] = b[z]
    BY <2>2, <2>4 DEF Agree
  <2>6. Elements(f) = Elements(g)
    BY <2>2
  <2> QED
    BY <2>1, <2>3, <2>5, <2>6, UnionAgrees
<1>7. FirstPresent([x \in DOMAIN copies |-> Couples(copies[x].hints)])
        = FirstPresent([x \in DOMAIN others |-> Couples(others[x].hints)])
  <2>1. PICK f, g : /\ f = [x \in DOMAIN copies |-> Couples(copies[x].hints)]
                    /\ g = [x \in DOMAIN others |-> Couples(others[x].hints)]
    OBVIOUS
  <2>2. /\ Elements(f) = {Couples(m.hints) : m \in Elements(copies)}
        /\ Elements(g) = {Couples(m.hints) : m \in Elements(others)}
    BY <2>1 DEF Elements
  <2>3. f \in Seq(Elements(f)) /\ g \in Seq(Elements(f))
    BY <1>1, <2>1, <2>2, ImageList
  <2>4. \A a, b \in Elements(f) : a = b \/ a = {} \/ b = {}
    BY <2>2 DEF Agree
  <2>5. FirstPresent(f) = UNION Elements(f) /\ FirstPresent(g) = UNION Elements(g)
    BY <2>2, <2>3, <2>4, FirstPresentIs
  <2> QED
    BY <2>1, <2>2, <2>5
<1>8. FirstPresent([x \in DOMAIN copies |-> Triples(copies[x].hints)])
        = FirstPresent([x \in DOMAIN others |-> Triples(others[x].hints)])
  <2>1. PICK f, g : /\ f = [x \in DOMAIN copies |-> Triples(copies[x].hints)]
                    /\ g = [x \in DOMAIN others |-> Triples(others[x].hints)]
    OBVIOUS
  <2>2. /\ Elements(f) = {Triples(m.hints) : m \in Elements(copies)}
        /\ Elements(g) = {Triples(m.hints) : m \in Elements(others)}
    BY <2>1 DEF Elements
  <2>3. f \in Seq(Elements(f)) /\ g \in Seq(Elements(f))
    BY <1>1, <2>1, <2>2, ImageList
  <2>4. \A a, b \in Elements(f) : a = b \/ a = {} \/ b = {}
    BY <2>2 DEF Agree
  <2>5. FirstPresent(f) = UNION Elements(f) /\ FirstPresent(g) = UNION Elements(g)
    BY <2>2, <2>3, <2>4, FirstPresentIs
  <2> QED
    BY <2>1, <2>2, <2>5
<1> QED
  BY <1>4, <1>5, <1>6, <1>7, <1>8 DEF Merge

\* What lists have, one after the other, is what each of them has.
LEMMA FlattenElements ==
    ASSUME NEW M, NEW seqs \in Seq(Seq(M))
    PROVE Elements(FlattenSeq(seqs)) = UNION {Elements(list) : list \in Elements(seqs)}
<1>1. Len(seqs) \in Nat /\ DOMAIN seqs = 1 .. Len(seqs)
  BY LenProperties
<1>2. CASE Len(seqs) = 0
  <2>1. seqs = <<>>
    BY <1>2, EmptySeq
  <2>2. FlattenSeq(seqs) = <<>>
    BY <1>2, <2>1 DEF FlattenSeq
  <2> QED
    BY <2>1, <2>2 DEF Elements
<1>3. CASE Len(seqs) # 0
  <2>1. PICK f : /\ FlattenSeq(seqs) = f[Len(seqs)]
                 /\ \A i \in 1 .. Len(seqs) : f[i] = IF i = 1 THEN seqs[i] ELSE f[i - 1] \o seqs[i]
    BY <1>3, FlattenRecursion
  <2> DEFINE Upto(k) == UNION {Elements(seqs[x]) : x \in 1 .. k}
             Joined(k) == f[k] \in Seq(M) /\ Elements(f[k]) = Upto(k)
             S == {k \in Nat : k \in 1 .. Len(seqs) => Joined(k)}
  <2>2. 0 \in S
    BY <1>1
  <2>3. \A k \in Nat : k \in S => k + 1 \in S
    <3> SUFFICES ASSUME NEW k \in Nat, k \in S, k + 1 \in 1 .. Len(seqs) PROVE Joined(k + 1)
      <4>1. \A k \in Nat : k + 1 \in Nat
        OBVIOUS
      <4> HIDE DEF Joined
      <4> QED
        BY <4>1
    <3>1. seqs[k + 1] \in Seq(M)
      BY <1>1, ElementOfSeq
    <3>2. CASE k = 0
      <4>1. f[1] = seqs[1]
        BY <2>1, <3>2
      <4>2. 1 .. 1 = {1}
        OBVIOUS
      <4>3. Upto(1) = Elements(seqs[1])
        BY <4>2
      <4> QED
        BY <3>1, <3>2, <4>1, <4>3
    <3>3. CASE k # 0
      <4>1. k \in 1 .. Len(seqs) /\ (k + 1) - 1 = k /\ k + 1 # 1
        BY <1>1, <3>3
      <4>2. f[k + 1] = f[k] \o seqs[k + 1]
        BY <2>1, <4>1
      <4>3. f[k] \in Seq(M) /\ Elements(f[k]) = Upto(k)
        BY <4>1
      <4>4. 1 .. k + 1 = (1 .. k) \cup {k + 1}
        BY <4>1
      <4>5. Upto(k + 1) = Upto(k) \cup Elements(seqs[k + 1])
        BY <4>4
      <4> HIDE DEF Upto
      <4>6. f[k + 1] \in Seq(M) /\ Elements(f[k + 1]) = Elements(f[k]) \cup Elements(seqs[k + 1])
        BY <3>1, <4>2, <4>3, ConcatElements
      <4> QED
        BY <4>3, <4>5, <4>6
    <3> QED
      BY <3>2, <3>3
  <2> HIDE DEF S
  <2>4. Len(seqs) \in S
    BY <1>1, <2>2, <2>3, SetInduction
  <2>5. Elements(FlattenSeq(seqs)) = Upto(Len(seqs))
    BY <1>1, <1>3, <2>1, <2>4 DEF S
  <2>6. Upto(Len(seqs)) = UNION {Elements(list) : list \in Elements(seqs)}
    <3>1. Elements(seqs) = {seqs[x] : x \in 1 .. Len(seqs)}
      BY <1>1 DEF Elements
    <3> QED
      BY <3>1
  <2> QED
    BY <2>5, <2>6
<1> QED
  BY <1>2, <1>3

\* What the exchanges of a list carry is what those it has carry.
LEMMA UnwrappedElements ==
    ASSUME NEW n \in 1 .. MaxNesting, NEW list \in Seq(CopiesAt[n - 1])
    PROVE Elements(Unwrapped(list)) = CarriedBy(Elements(list))
<1> DEFINE carried == [x \in DOMAIN list |-> Carried(list[x])]
<1>1. Len(list) \in Nat /\ DOMAIN list = 1 .. Len(list)
  BY LenProperties
<1>2. PICK M : M = UNION {Elements(Carried(list[x])) : x \in DOMAIN list}
  OBVIOUS
<1>3. ASSUME NEW x \in 1 .. Len(list) PROVE carried[x] \in Seq(M)
  <2>1. PICK m \in CopiesAt[n - 1] : m = list[x]
    BY <1>1, ElementOfSeq
  <2>2. n - 1 \in 0 .. MaxNesting
    BY VerificationAssumption
  <2>3. Carried(m) \in Seq(Elements(Carried(m)))
    BY <2>2, SentCopies
  <2>4. carried[x] = Carried(m) /\ Elements(Carried(m)) \subseteq M
    BY <1>1, <1>2, <2>1
  <2> QED
    BY <2>3, <2>4, SeqDef
<1>4. carried \in [1 .. Len(list) -> Seq(M)]
  BY <1>1, <1>3
<1>5. Elements(carried) = {Carried(m) : m \in Elements(list)}
  BY DEF Elements
<1>6. Unwrapped(list) = FlattenSeq(carried)
  BY DEF Unwrapped
<1> HIDE DEF carried
<1>7. carried \in Seq(Seq(M))
  BY <1>1, <1>4, SeqDef
<1>8. Elements(FlattenSeq(carried)) = UNION {Elements(l) : l \in Elements(carried)}
  BY <1>7, FlattenElements
<1>9. UNION {Elements(l) : l \in Elements(carried)} = UNION {Elements(Carried(m)) : m \in Elements(list)}
  BY <1>5
<1> QED
  BY <1>6, <1>8, <1>9 DEF CarriedBy

\* Lists of the same messages have the same ones at every level.
LEMMA LevelsAgree ==
    ASSUME NEW messages \in Seq(SentMessages), NEW others \in Seq(SentMessages),
           Elements(messages) = Elements(others),
           NEW level, Nested(level, messages), NEW theirs, Nested(theirs, others)
    PROVE \A n \in 0 .. MaxNesting : Elements(level[n]) = Elements(theirs[n])
<1> DEFINE S == {n \in Nat : n <= MaxNesting => Elements(level[n]) = Elements(theirs[n])}
<1>1. 0 \in S
  BY DEF Nested
<1>2. \A n \in Nat : n \in S => n + 1 \in S
  <2> SUFFICES ASSUME NEW n \in Nat, n \in S, n + 1 <= MaxNesting
               PROVE Elements(level[n + 1]) = Elements(theirs[n + 1])
    OBVIOUS
  <2>1. PICK k \in 1 .. MaxNesting : k = n + 1 /\ k - 1 = n
    BY VerificationAssumption
  <2>2. n \in 0 .. MaxNesting /\ Elements(level[n]) = Elements(theirs[n])
    BY <2>1, VerificationAssumption
  <2>3. level[k - 1] \in Seq(CopiesAt[k - 1]) /\ theirs[k - 1] \in Seq(CopiesAt[k - 1])
    BY <2>1, <2>2, LevelsAreSequences
  <2>4. level[k] = Unwrapped(level[k - 1]) /\ theirs[k] = Unwrapped(theirs[k - 1])
    BY DEF Nested
  <2>5. /\ Elements(level[k]) = CarriedBy(Elements(level[k - 1]))
        /\ Elements(theirs[k]) = CarriedBy(Elements(theirs[k - 1]))
    BY <2>3, <2>4, UnwrappedElements
  <2> QED
    BY <2>1, <2>2, <2>5
<1> HIDE DEF S
<1>3. Nat \subseteq S
  BY <1>1, <1>2, SetInduction
<1> QED
  BY <1>3, VerificationAssumption DEF S

\* What flatten looks at is what the levels have.
LEMMA LaidOutElements ==
    ASSUME NEW messages \in Seq(SentMessages), NEW level, Nested(level, messages)
    PROVE Elements(LaidOut(level)) = UNION {Elements(level[n]) : n \in 0 .. MaxNesting}
<1>1. PICK levels : levels = [n \in 1 .. MaxNesting + 1 |-> level[n - 1]]
  OBVIOUS
<1>2. levels \in Seq(Seq(Copies)) /\ LaidOut(level) = FlattenSeq(levels)
  BY <1>1, LaidOutIsSequence
<1>3. Elements(LaidOut(level)) = UNION {Elements(l) : l \in Elements(levels)}
  BY <1>2, FlattenElements
<1>4. Elements(levels) = {level[n] : n \in 0 .. MaxNesting}
  <2>1. Elements(levels) = {level[n - 1] : n \in 1 .. MaxNesting + 1}
    BY <1>1 DEF Elements
  <2>2. \A n \in 1 .. MaxNesting + 1 : n - 1 \in 0 .. MaxNesting
    BY VerificationAssumption
  <2>3. \A n \in 0 .. MaxNesting : n + 1 \in 1 .. MaxNesting + 1 /\ (n + 1) - 1 = n
    BY VerificationAssumption
  <2> QED
    BY <2>1, <2>2, <2>3
<1> QED
  BY <1>3, <1>4

\* flatten looks at the same messages, in whatever order they and their exchanges come.
LEMMA PendingElements ==
    ASSUME NEW messages \in Seq(SentMessages), NEW others \in Seq(SentMessages),
           Elements(messages) = Elements(others)
    PROVE Elements(Pending(messages)) = Elements(Pending(others))
<1>1. PICK level : Nested(level, messages) /\ Pending(messages) = NoExchange(LaidOut(level))
  BY PendingLevels
<1>2. PICK theirs : Nested(theirs, others) /\ Pending(others) = NoExchange(LaidOut(theirs))
  BY PendingLevels
<1>3. LaidOut(level) \in Seq(Copies) /\ LaidOut(theirs) \in Seq(Copies)
  BY <1>1, <1>2, LaidOutIsSequence
<1>4. Elements(LaidOut(level)) = Elements(LaidOut(theirs))
  <2>1. Elements(LaidOut(level)) = UNION {Elements(level[n]) : n \in 0 .. MaxNesting}
    BY <1>1, LaidOutElements
  <2>2. Elements(LaidOut(theirs)) = UNION {Elements(theirs[n]) : n \in 0 .. MaxNesting}
    BY <1>2, LaidOutElements
  <2>3. \A n \in 0 .. MaxNesting : Elements(level[n]) = Elements(theirs[n])
    BY <1>1, <1>2, LevelsAgree
  <2> QED
    BY <2>1, <2>2, <2>3
<1>5. ASSUME NEW list \in Seq(Copies)
      PROVE Elements(NoExchange(list)) = {m \in Elements(list) : m.body.t # "exn"}
  <2>1. PICK I \in SUBSET (DOMAIN list) : I = {x \in DOMAIN list : list[x].body.t # "exn"}
    OBVIOUS
  <2>2. Elements(NoExchange(list)) = {list[x] : x \in I}
    BY <2>1, SelectedMembers DEF NoExchange
  <2> QED
    BY <2>1, <2>2 DEF Elements
<1>6. Elements(Pending(messages)) = {m \in Elements(LaidOut(level)) : m.body.t # "exn"}
  BY <1>1, <1>3, <1>5
<1>7. Elements(Pending(others)) = {m \in Elements(LaidOut(theirs)) : m.body.t # "exn"}
  BY <1>2, <1>3, <1>5
<1> QED
  BY <1>4, <1>6, <1>7

\* No member of a list twice.
Once(list) == \A x, y \in DOMAIN list : list[x] = list[y] => x = y

\* The members at some positions come from different positions.
LEMMA SelectedPlaces ==
    ASSUME NEW M, NEW list \in Seq(M), NEW I \in SUBSET (DOMAIN list)
    PROVE \E f : /\ \A n \in DOMAIN Selected(list, I) : f[n] \in I /\ Selected(list, I)[n] = list[f[n]]
                 /\ \A n, k \in DOMAIN Selected(list, I) : f[n] = f[k] => n = k
<1> DEFINE c == Cardinality(I)
           upto(x) == Cardinality({y \in I : y <= x})
           nth == [n \in 1 .. c |-> CHOOSE x \in I : upto(x) = n]
<1>1. Len(list) \in Nat /\ I \subseteq 1 .. Len(list)
  BY LenProperties
<1>2. \A n \in 1 .. c : nth[n] \in I /\ upto(nth[n]) = n
  <2> TAKE n \in 1 .. c
  <2>1. \E x \in I : upto(x) = n
    BY <1>1, NthExists
  <2> HIDE DEF upto
  <2> QED
    BY <2>1
<1>3. Selected(list, I) = [n \in 1 .. c |-> list[nth[n]]]
  BY DEF Selected
<1> HIDE DEF nth, upto, c
<1>4. DOMAIN Selected(list, I) = 1 .. c /\ \A n \in 1 .. c : Selected(list, I)[n] = list[nth[n]]
  BY <1>3
<1>5. \A n, k \in 1 .. c : nth[n] = nth[k] => n = k
  BY <1>2
<1> QED
  BY <1>2, <1>4, <1>5

\* So the members of a list without repetition have none.
LEMMA SelectedOnce ==
    ASSUME NEW M, NEW list \in Seq(M), NEW I \in SUBSET (DOMAIN list), Once(list)
    PROVE Once(Selected(list, I))
<1>1. PICK f : /\ \A n \in DOMAIN Selected(list, I) : f[n] \in I /\ Selected(list, I)[n] = list[f[n]]
               /\ \A n, k \in DOMAIN Selected(list, I) : f[n] = f[k] => n = k
  BY SelectedPlaces
<1>2. PICK s : s = Selected(list, I)
  OBVIOUS
<1>3. ASSUME NEW x \in DOMAIN s, NEW y \in DOMAIN s, s[x] = s[y] PROVE x = y
  <2>1. list[f[x]] = list[f[y]] /\ f[x] \in DOMAIN list /\ f[y] \in DOMAIN list
    BY <1>1, <1>2, <1>3
  <2>2. f[x] = f[y]
    BY <2>1 DEF Once
  <2> QED
    BY <1>1, <1>2, <2>2
<1> QED
  BY <1>2, <1>3 DEF Once

\* An index has a message for each SAID among those flatten looks at, and none twice.
LEMMA FlattenCovers ==
    ASSUME NEW messages \in Seq(SentMessages)
    PROVE /\ \A c \in Elements(Pending(messages)) :
                \E m \in Elements(Flatten(messages)) : m.body.d = c.body.d
          /\ Once(Flatten(messages))
<1> DEFINE pending == Pending(messages)
           same(d) == {z \in DOMAIN pending : pending[z].body.d = d}
           new == {z \in DOMAIN pending : \A y \in 1 .. z - 1 : pending[y].body.d # pending[z].body.d}
           firsts == Selected(pending, new)
           merged == [n \in DOMAIN firsts |-> Merge(Selected(pending, same(firsts[n].body.d)))]
<1>1. Flatten(messages) = merged
  BY DEF Flatten
<1>2. pending \in Seq(Copies)
  BY PendingIsSequence
<1> HIDE DEF pending
<1>3. /\ new \in SUBSET (DOMAIN pending) /\ \A d : same(d) \in SUBSET (DOMAIN pending)
      /\ Len(pending) \in Nat /\ DOMAIN pending = 1 .. Len(pending)
  BY <1>2, LenProperties
<1>4. ASSUME NEW d, same(d) # {} PROVE Merge(Selected(pending, same(d))).body.d = d
  <2>1. PICK I \in SUBSET (DOMAIN pending) : I = same(d)
    BY <1>3
  <2>2. \A z \in I : pending[z].body.d = d
    BY <2>1
  <2> HIDE DEF same
  <2>3. PICK copies : copies = Selected(pending, I)
    OBVIOUS
  <2>4. /\ copies \in Seq(Copies) /\ copies # <<>>
        /\ \A x \in DOMAIN copies : \E z \in I : copies[x] = pending[z]
    BY <1>2, <1>4, <2>1, <2>3, SelectedMembers
  <2>5. Len(copies) \in Nat /\ DOMAIN copies = 1 .. Len(copies) /\ Len(copies) # 0
    BY <2>4, LenProperties, EmptySeq
  <2>6. 1 \in DOMAIN copies
    BY <2>5
  <2>7. Merge(copies).body = copies[1].body
    BY DEF Merge
  <2> QED
    BY <2>1, <2>2, <2>3, <2>4, <2>6, <2>7
<1>5. \A z, w \in new : pending[z].body.d = pending[w].body.d => z = w
  BY <1>3
<1>6. ASSUME NEW c \in Elements(pending) PROVE \E z \in new : pending[z].body.d = c.body.d
  <2>1. PICK x \in DOMAIN pending : c = pending[x]
    BY DEF Elements
  <2>2. PICK I : I = same(c.body.d)
    OBVIOUS
  <2>3. I \in SUBSET Nat /\ x \in I
    BY <1>3, <2>1, <2>2
  <2>4. PICK z \in I : \A y \in I : z <= y
    BY <2>3, NatMin
  <2>5. z \in DOMAIN pending /\ pending[z].body.d = c.body.d
    BY <2>2
  <2>6. ASSUME NEW y \in 1 .. z - 1 PROVE pending[y].body.d # pending[z].body.d
    <3>1. y \in DOMAIN pending /\ ~(z <= y)
      BY <1>3, <2>5
    <3> QED
      BY <2>2, <2>4, <2>5, <3>1
  <2> QED
    BY <2>5, <2>6
<1> HIDE DEF new
<1>7. PICK f : /\ \A n \in DOMAIN firsts : f[n] \in new /\ firsts[n] = pending[f[n]]
               /\ \A n, k \in DOMAIN firsts : f[n] = f[k] => n = k
  BY <1>2, <1>3, SelectedPlaces
<1>8. \A z \in new : \E n \in DOMAIN firsts : firsts[n] = pending[z]
  <2>1. Elements(firsts) = {pending[z] : z \in new}
    BY <1>2, <1>3, SelectedMembers
  <2> HIDE DEF firsts
  <2> QED
    BY <2>1 DEF Elements
<1>9. \A n \in DOMAIN firsts : same(firsts[n].body.d) # {}
  BY <1>3, <1>7
<1> HIDE DEF firsts, same
<1>10. DOMAIN merged = DOMAIN firsts /\ \A n \in DOMAIN firsts : merged[n].body.d = firsts[n].body.d
  BY <1>4, <1>9
<1> HIDE DEF merged
<1>11. ASSUME NEW c \in Elements(pending) PROVE \E m \in Elements(merged) : m.body.d = c.body.d
  <2>1. PICK z \in new : pending[z].body.d = c.body.d
    BY <1>6
  <2>2. PICK n \in DOMAIN firsts : firsts[n] = pending[z]
    BY <1>8
  <2>3. merged[n] \in Elements(merged) /\ merged[n].body.d = c.body.d
    BY <1>10, <2>1, <2>2 DEF Elements
  <2> QED
    BY <2>3
<1>12. \A n, k \in DOMAIN merged : merged[n] = merged[k] => n = k
  <2> SUFFICES ASSUME NEW n \in DOMAIN merged, NEW k \in DOMAIN merged, merged[n] = merged[k] PROVE n = k
    OBVIOUS
  <2>1. firsts[n].body.d = firsts[k].body.d
    BY <1>10
  <2>2. f[n] = f[k]
    BY <1>5, <1>7, <1>10, <2>1
  <2> QED
    BY <1>7, <1>10, <2>2
<1> QED
  BY <1>1, <1>11, <1>12 DEF Once, pending

\* An index of a consistent stream has nothing that another of the same messages has not.
LEMMA FlattenWithin ==
    ASSUME NEW messages \in Seq(SentMessages), NEW others \in Seq(SentMessages),
           Elements(Pending(messages)) = Elements(Pending(others)), Consistent(Pending(messages))
    PROVE Elements(Flatten(messages)) \subseteq Elements(Flatten(others))
<1> SUFFICES ASSUME NEW m \in Elements(Flatten(messages)) PROVE m \in Elements(Flatten(others))
  OBVIOUS
<1>1. PICK pending : pending = Elements(Pending(messages))
  OBVIOUS
<1>2. PICK copies \in Seq(Copies) :
        /\ copies # <<>> /\ m = Merge(copies)
        /\ Elements(copies) = {c \in pending : c.body.d = m.body.d}
  BY <1>1, FlattenMembers
<1>3. PICK c \in Elements(copies) : c \in pending /\ c.body.d = m.body.d
  <2>1. Len(copies) \in Nat /\ DOMAIN copies = 1 .. Len(copies) /\ Len(copies) # 0
    BY <1>2, LenProperties, EmptySeq
  <2>2. 1 \in DOMAIN copies
    BY <2>1
  <2>3. copies[1] \in Elements(copies)
    BY <2>2 DEF Elements
  <2> QED
    BY <1>2, <2>3
<1>4. PICK o \in Elements(Flatten(others)) : o.body.d = m.body.d
  BY <1>1, <1>3, FlattenCovers
<1>5. PICK theirs \in Seq(Copies) :
        /\ theirs # <<>> /\ o = Merge(theirs)
        /\ Elements(theirs) = {k \in pending : k.body.d = o.body.d}
  BY <1>1, FlattenMembers
<1>6. \A k, l \in Elements(copies) : Agree(k, l)
  BY <1>1, <1>2 DEF Consistent
<1>7. m = o
  BY <1>2, <1>4, <1>5, <1>6, MergeAgrees
<1> QED
  BY <1>7

\* One event of a kind for each credential or registry, and one for each sequence number.
Unique(E) ==
    /\ \A m, o \in E : IsTelEventType(m.body.t) /\ m.body.t = o.body.t /\ m.body.i = o.body.i => m = o
    /\ \A m, o \in E :
          IsKelEventType(m.body.t) /\ IsKelEventType(o.body.t) /\ m.body.i = o.body.i /\ m.body.s = o.body.s
              => m = o

\* The index of a consistent stream is made alike from the same messages in another order.
LEMMA FlattenAgrees ==
    ASSUME NEW messages \in Seq(SentMessages), NEW others \in Seq(SentMessages),
           Elements(messages) = Elements(others), Consistent(Pending(messages))
    PROVE /\ Elements(Flatten(messages)) = Elements(Flatten(others))
          /\ Unique(Elements(Flatten(messages)))
<1>1. Elements(Pending(messages)) = Elements(Pending(others))
  BY PendingElements
<1>2. Consistent(Pending(others))
  BY <1>1 DEF Consistent
<1>3. Elements(Flatten(messages)) = Elements(Flatten(others))
  BY <1>1, <1>2, FlattenWithin
<1>4. ASSUME NEW m \in Elements(Flatten(messages))
      PROVE \E c \in Elements(Pending(messages)) : c.body = m.body
  <2>1. PICK copies \in Seq(Copies) :
          /\ copies # <<>> /\ m = Merge(copies)
          /\ Elements(copies) = {c \in Elements(Pending(messages)) : c.body.d = m.body.d}
    BY FlattenMembers
  <2>2. Len(copies) \in Nat /\ DOMAIN copies = 1 .. Len(copies) /\ Len(copies) # 0
    BY <2>1, LenProperties, EmptySeq
  <2>3. 1 \in DOMAIN copies
    BY <2>2
  <2>4. copies[1] \in Elements(copies)
    BY <2>3 DEF Elements
  <2>5. m.body = copies[1].body
    BY <2>1 DEF Merge
  <2> QED
    BY <2>1, <2>4, <2>5
<1>5. PICK E : E = Elements(Flatten(messages))
  OBVIOUS
<1>6. \A m, o \in E : m.body.d = o.body.d => m = o
  BY <1>5, FlattenIndexed DEF Indexed
<1>7. ASSUME NEW m \in E, NEW o \in E
      PROVE /\ IsTelEventType(m.body.t) /\ m.body.t = o.body.t /\ m.body.i = o.body.i => m.body.d = o.body.d
            /\ IsKelEventType(m.body.t) /\ IsKelEventType(o.body.t) /\ m.body.i = o.body.i /\ m.body.s = o.body.s
                  => m.body.d = o.body.d
  <2>1. PICK c, k \in Elements(Pending(messages)) : c.body = m.body /\ k.body = o.body
    BY <1>4, <1>5
  <2> QED
    BY <2>1 DEF Consistent
<1>8. Unique(E)
  <2>1. \A m, o \in E : IsTelEventType(m.body.t) /\ m.body.t = o.body.t /\ m.body.i = o.body.i => m = o
    BY <1>6, <1>7
  <2>2. \A m, o \in E :
          IsKelEventType(m.body.t) /\ IsKelEventType(o.body.t) /\ m.body.i = o.body.i /\ m.body.s = o.body.s
              => m = o
    BY <1>6, <1>7
  <2> QED
    BY <2>1, <2>2 DEF Unique
<1> QED
  BY <1>3, <1>5, <1>8

\* A list without repetition is as long as what it has.
LEMMA OnceCounted ==
    ASSUME NEW M, NEW list \in Seq(M), Once(list)
    PROVE IsFiniteSet(Elements(list)) /\ Cardinality(Elements(list)) = Len(list)
<1>1. PICK n, E : n = Len(list) /\ E = Elements(list)
  OBVIOUS
<1>2. n \in Nat /\ DOMAIN list = 1 .. n
  BY <1>1, LenProperties
<1>3. PICK f : f = [x \in 1 .. n |-> list[x]]
  OBVIOUS
<1>4. f \in [1 .. n -> E] /\ \A e \in E : \E x \in 1 .. n : f[x] = e
  BY <1>1, <1>2, <1>3 DEF Elements
<1>5. \A x, y \in 1 .. n : f[x] = f[y] => x = y
  BY <1>2, <1>3 DEF Once
<1>6. f \in Bijection(1 .. n, E)
  BY <1>4, <1>5 DEF Bijection, Injection, Surjection, IsInjective
<1>7. ExistsBijection(1 .. n, E)
  BY <1>6 DEF ExistsBijection
<1> QED
  BY <1>1, <1>2, <1>7, FS_CountingElements, FS_NatBijection

\* Where no two have one sequence number, as many are put before a member as have a lower one.
LEMMA BeforeCounted ==
    ASSUME NEW M, NEW list \in Seq(M), Once(list), \A m \in M : m.body.s \in Nat,
           \A m, o \in Elements(list) : m.body.s = o.body.s => m = o, NEW z \in DOMAIN list
    PROVE Cardinality(Before(list, z)) = Cardinality({o \in Elements(list) : o.body.s < list[z].body.s})
<1>1. Len(list) \in Nat /\ DOMAIN list = 1 .. Len(list) /\ \A y \in DOMAIN list : list[y] \in M
  BY LenProperties, ElementOfSeq
<1>2. PICK B, T : B = Before(list, z) /\ T = {o \in Elements(list) : o.body.s < list[z].body.s}
  OBVIOUS
<1>3. ASSUME NEW y \in DOMAIN list PROVE y \in B <=> list[y].body.s < list[z].body.s
  <2>1. list[y] \in Elements(list) /\ list[z] \in Elements(list)
    BY DEF Elements
  <2>2. list[y].body.s = list[z].body.s => y = z
    BY <2>1 DEF Once
  <2>3. y = z => ~(y < z)
    BY <1>1
  <2> QED
    BY <1>2, <2>2, <2>3 DEF Before
<1>4. B \subseteq DOMAIN list
  BY <1>2 DEF Before
<1>5. IsFiniteSet(B)
  <2>1. IsFiniteSet(1 .. Len(list))
    BY <1>1, FS_Interval
  <2> QED
    BY <1>1, <1>4, <2>1, FS_Subset
<1>6. PICK f : f = [y \in B |-> list[y]]
  OBVIOUS
<1>7. f \in [B -> T]
  BY <1>2, <1>3, <1>4, <1>6 DEF Elements
<1>8. \A o \in T : \E y \in B : f[y] = o
  BY <1>2, <1>3, <1>6 DEF Elements
<1>9. \A x, y \in B : f[x] = f[y] => x = y
  BY <1>4, <1>6 DEF Once
<1>10. f \in Bijection(B, T)
  BY <1>7, <1>8, <1>9 DEF Bijection, Injection, Surjection, IsInjective
<1>11. ExistsBijection(B, T)
  BY <1>10 DEF ExistsBijection
<1>12. Cardinality(T) = Cardinality(B)
  BY <1>5, <1>11, FS_Bijection
<1> QED
  BY <1>2, <1>12

\* Sorting makes the same list of the same events, where no two have one sequence number.
LEMMA SortedAlike ==
    ASSUME NEW M, NEW a \in Seq(M), NEW b \in Seq(M), \A m \in M : m.body.s \in Nat,
           Once(a), Once(b), Elements(a) = Elements(b),
           \A m, o \in Elements(a) : m.body.s = o.body.s => m = o
    PROVE SortedBySn(a) = SortedBySn(b)
<1>1. PICK E : E = Elements(a) /\ E = Elements(b)
  OBVIOUS
<1>2. IsFiniteSet(E) /\ Cardinality(E) = Len(a) /\ Cardinality(E) = Len(b)
  BY <1>1, OnceCounted
<1>3. PICK s, t : s = SortedBySn(a) /\ t = SortedBySn(b)
  OBVIOUS
<1>4. /\ s \in Seq(M) /\ Len(s) = Len(a)
      /\ \A x \in DOMAIN s : \E z \in DOMAIN a : s[x] = a[z] /\ Cardinality(Before(a, z)) = x - 1
  BY <1>3, SortedMembers
<1>5. /\ t \in Seq(M) /\ Len(t) = Len(b)
      /\ \A x \in DOMAIN t : \E z \in DOMAIN b : t[x] = b[z] /\ Cardinality(Before(b, z)) = x - 1
  BY <1>3, SortedMembers
<1>6. DOMAIN s = 1 .. Len(s) /\ DOMAIN t = 1 .. Len(t) /\ Len(s) = Len(t) /\ Len(s) \in Nat
  BY <1>2, <1>4, <1>5, LenProperties
<1> DEFINE Lower(m) == {o \in E : o.body.s < m.body.s}
<1>7. \A z \in DOMAIN a : Cardinality(Before(a, z)) = Cardinality(Lower(a[z]))
  BY <1>1, BeforeCounted
<1>8. \A z \in DOMAIN b : Cardinality(Before(b, z)) = Cardinality(Lower(b[z]))
  BY <1>1, BeforeCounted
<1>9. \A m \in E : m.body.s \in Nat
  BY <1>1, LenProperties, ElementOfSeq DEF Elements
<1>10. \A m, o \in E : m.body.s < o.body.s => Lower(m) \subseteq Lower(o) /\ m \in Lower(o) /\ m \notin Lower(m)
  BY <1>9
<1>11. \A m \in E : Lower(m) \in SUBSET E
  OBVIOUS
<1> HIDE DEF Lower
<1>12. ASSUME NEW m \in E, NEW o \in E, m.body.s < o.body.s
       PROVE Cardinality(Lower(m)) # Cardinality(Lower(o))
  <2>1. PICK L, H : L = Lower(m) /\ H = Lower(o)
    OBVIOUS
  <2>2. L \in SUBSET H /\ L # H
    BY <1>10, <1>12, <2>1
  <2>3. IsFiniteSet(H)
    BY <1>2, <1>11, <2>1, FS_Subset
  <2> QED
    BY <2>1, <2>2, <2>3, FS_Subset
<1>13. \A m, o \in E : Cardinality(Lower(m)) = Cardinality(Lower(o)) => m = o
  <2> SUFFICES ASSUME NEW m \in E, NEW o \in E, Cardinality(Lower(m)) = Cardinality(Lower(o)) PROVE m = o
    OBVIOUS
  <2>1. ~(m.body.s < o.body.s) /\ ~(o.body.s < m.body.s)
    BY <1>12
  <2>2. m.body.s = o.body.s
    BY <1>9, <2>1
  <2> QED
    BY <1>1, <2>2
<1>14. ASSUME NEW x \in DOMAIN s PROVE s[x] = t[x]
  <2>1. PICK z \in DOMAIN a : s[x] = a[z] /\ Cardinality(Before(a, z)) = x - 1
    BY <1>4
  <2>2. PICK w \in DOMAIN b : t[x] = b[w] /\ Cardinality(Before(b, w)) = x - 1
    BY <1>5, <1>6
  <2>3. a[z] \in E /\ b[w] \in E
    BY <1>1 DEF Elements
  <2>4. Cardinality(Lower(a[z])) = Cardinality(Lower(b[w]))
    BY <1>7, <1>8, <2>1, <2>2
  <2>5. a[z] = b[w]
    BY <1>13, <2>3, <2>4
  <2> QED
    BY <2>1, <2>2, <2>5
<1> QED
  BY <1>3, <1>4, <1>5, <1>6, <1>14, SeqEqual

\* Two indexes with the same messages, one for a place each.
Alike(idx, other) ==
    /\ Indexed(idx) /\ Once(idx) /\ Indexed(other) /\ Once(other)
    /\ Elements(idx) = Elements(other)
    /\ Unique(Elements(idx))
    /\ Numbered(idx)

\* They have the same key events of an identifier in the same order.
LEMMA OwnKeyEventsAlike ==
    ASSUME NEW idx, NEW other, Alike(idx, other), NEW aid
    PROVE OwnKeyEvents(idx, aid) = OwnKeyEvents(other, aid)
<1> DEFINE I(list) == {x \in DOMAIN list : IsKelEventType(list[x].body.t) /\ list[x].body.i = aid}
<1>1. ASSUME NEW list, Indexed(list), Once(list)
      PROVE /\ OwnKeyEvents(list, aid) = SortedBySn(Selected(list, I(list)))
            /\ Selected(list, I(list)) \in Seq(Elements(list))
            /\ Once(Selected(list, I(list)))
            /\ Elements(Selected(list, I(list))) =
                   {m \in Elements(list) : IsKelEventType(m.body.t) /\ m.body.i = aid}
  <2>1. I(list) \in SUBSET (DOMAIN list) /\ list \in Seq(Elements(list))
    BY <1>1 DEF Indexed
  <2>2. OwnKeyEvents(list, aid) = SortedBySn(Selected(list, I(list)))
    BY DEF OwnKeyEvents
  <2>3. {list[x] : x \in I(list)} = {m \in Elements(list) : IsKelEventType(m.body.t) /\ m.body.i = aid}
    BY DEF Elements
  <2>4. PICK J : J = I(list)
    OBVIOUS
  <2> HIDE DEF I
  <2>5. /\ Selected(list, J) \in Seq(Elements(list)) /\ Once(Selected(list, J))
        /\ Elements(Selected(list, J)) = {list[x] : x \in J}
    BY <1>1, <2>1, <2>4, SelectedMembers, SelectedOnce
  <2> QED
    BY <2>2, <2>3, <2>4, <2>5
<1> HIDE DEF I
<1>2. PICK a, b : a = Selected(idx, I(idx)) /\ b = Selected(other, I(other))
  OBVIOUS
<1>3. PICK M : M = {m \in Elements(idx) : IsKelEventType(m.body.t) /\ m.body.i = aid}
  OBVIOUS
<1>4. /\ OwnKeyEvents(idx, aid) = SortedBySn(a) /\ a \in Seq(Elements(idx)) /\ Once(a) /\ Elements(a) = M
      /\ OwnKeyEvents(other, aid) = SortedBySn(b) /\ b \in Seq(Elements(idx)) /\ Once(b) /\ Elements(b) = M
  BY <1>1, <1>2, <1>3 DEF Alike
<1>5. a \in Seq(M) /\ b \in Seq(M)
  <2>1. /\ Len(a) \in Nat /\ DOMAIN a = 1 .. Len(a) /\ a = [x \in 1 .. Len(a) |-> a[x]]
        /\ Len(b) \in Nat /\ DOMAIN b = 1 .. Len(b) /\ b = [x \in 1 .. Len(b) |-> b[x]]
    BY <1>4, LenProperties
  <2> QED
    BY <1>4, <2>1, ImageList
<1>6. \A m \in M : m.body.s \in Nat
  BY <1>3 DEF Alike, Numbered, KelOf
<1>7. \A m, o \in M : m.body.s = o.body.s => m = o
  BY <1>3 DEF Alike, Unique
<1> QED
  BY <1>4, <1>5, <1>6, <1>7, SortedAlike

\* So keyEvents returns the same.
LEMMA KeyEventsAlike ==
    ASSUME NEW idx, NEW other, Alike(idx, other), NEW aid
    PROVE KeyEventsOf(idx, aid) = KeyEventsOf(other, aid)
<1> DEFINE ids == AidsOf(idx)
<1>1. AidsOf(other) = ids
  BY DEF AidsOf, Alike
<1>2. CASE aid \notin ids
  BY <1>1, <1>2 DEF KeyEventsOf
<1>3. CASE aid \in ids
  <2>1. Indexed(idx) /\ Indexed(other)
    BY DEF Alike
  <2>2. PICK f : /\ KeyEventsOf(idx, aid) = f[{}][aid]
                 /\ \A v \in SUBSET ids : f[v] = Walk(idx, f, v)
    BY <1>3, <2>1, WalkRecursion
  <2>3. PICK g : /\ KeyEventsOf(other, aid) = g[{}][aid]
                 /\ \A v \in SUBSET AidsOf(other) : g[v] = Walk(other, g, v)
    BY <1>1, <1>3, <2>1, WalkRecursion
  <2>4. \A v : Walk(idx, g, v) = Walk(other, g, v)
    BY <1>1, OwnKeyEventsAlike DEF Walk
  <2>5. \A v \in SUBSET ids : g[v] = Walk(idx, g, v)
    BY <1>1, <2>3, <2>4
  <2> DEFINE S == {n \in Nat : \A v \in SUBSET ids : Cardinality(ids \ v) <= n => f[v] = g[v]}
  <2>6. IsFiniteSet(ids) /\ Cardinality(ids) \in Nat
    BY <2>1, AidsFinite
  <2>7. \A v \in SUBSET ids : /\ IsFiniteSet(ids \ v) /\ Cardinality(ids \ v) \in Nat
                              /\ Cardinality(ids \ v) <= Cardinality(ids)
    BY <2>6, FS_Subset, FS_CardinalityType
  <2>8. ASSUME NEW v \in SUBSET ids, \A c \in ids \ v : f[v \cup {c}] = g[v \cup {c}]
        PROVE f[v] = g[v]
    <3>1. Walk(idx, f, v) = Walk(idx, g, v)
      BY <2>8, WalkLocally
    <3> QED
      BY <2>2, <2>5, <3>1
  <2>9. 0 \in S
    <3> SUFFICES ASSUME NEW v \in SUBSET ids, Cardinality(ids \ v) <= 0 PROVE f[v] = g[v]
      OBVIOUS
    <3>1. PICK left : left = ids \ v /\ IsFiniteSet(left) /\ Cardinality(left) = 0
      BY <2>7
    <3>2. \A c \in ids \ v : FALSE
      BY <3>1, FS_EmptySet
    <3> QED
      BY <2>8, <3>2
  <2>10. ASSUME NEW n \in Nat, n \in S PROVE n + 1 \in S
    <3> SUFFICES ASSUME NEW v \in SUBSET ids, Cardinality(ids \ v) <= n + 1 PROVE f[v] = g[v]
      OBVIOUS
    <3>1. ASSUME NEW c \in ids \ v PROVE f[v \cup {c}] = g[v \cup {c}]
      <4>1. PICK w : w = v \cup {c} /\ w \in SUBSET ids
        OBVIOUS
      <4>2. PICK rest : /\ rest = ids \ v /\ IsFiniteSet(rest) /\ c \in rest /\ Cardinality(rest) \in Nat
                        /\ Cardinality(rest) <= n + 1
        BY <2>7
      <4>3. PICK less : less = rest \ {c} /\ less = ids \ w
        BY <4>1, <4>2
      <4>4. Cardinality(less) = Cardinality(rest) - 1
        BY <4>2, <4>3, FS_RemoveElement
      <4>5. Cardinality(less) <= n
        BY <4>2, <4>4
      <4>6. Cardinality(ids \ w) <= n
        BY <4>3, <4>5
      <4> QED
        BY <2>10, <4>1, <4>6
    <3> QED
      BY <2>8, <3>1
  <2> HIDE DEF S
  <2>11. Cardinality(ids) \in S
    BY <2>6, <2>9, <2>10, SetInduction
  <2>12. {} \in SUBSET ids
    OBVIOUS
  <2>13. f[{}] = g[{}]
    BY <2>7, <2>11, <2>12 DEF S
  <2> QED
    BY <2>2, <2>3, <2>13
<1> QED
  BY <1>2, <1>3

\* And the log of an issuer is the same.
LEMMA IssuerLogAlike ==
    ASSUME NEW idx, NEW other, Alike(idx, other), NEW aid
    PROVE IssuerLog(idx, aid) = IssuerLog(other, aid)
BY KeyEventsAlike DEF IssuerLog

\* The registry events of an index, and no others.
LEMMA RegistryElements ==
    ASSUME NEW idx, Indexed(idx), NEW registry
    PROVE /\ TransactionEvents(idx, registry) \in Seq(Elements(idx))
          /\ Elements(TransactionEvents(idx, registry)) =
                 {m \in Elements(idx) : /\ IsTelEventType(m.body.t)
                                        /\ registry = IF m.body.t = "vcp" THEN m.body.i ELSE m.body.ri}
<1> DEFINE I == {x \in DOMAIN idx :
                    LET body == idx[x].body IN
                        /\ IsTelEventType(body.t)
                        /\ registry = IF body.t = "vcp" THEN body.i ELSE body.ri}
<1>1. I \in SUBSET (DOMAIN idx) /\ idx \in Seq(Elements(idx))
  BY DEF Indexed
<1>2. TransactionEvents(idx, registry) = Selected(idx, I)
  BY DEF TransactionEvents
<1>3. {idx[x] : x \in I} =
          {m \in Elements(idx) : /\ IsTelEventType(m.body.t)
                                 /\ registry = IF m.body.t = "vcp" THEN m.body.i ELSE m.body.ri}
  BY DEF Elements
<1> HIDE DEF I
<1>4. /\ Selected(idx, I) \in Seq(Elements(idx))
      /\ Elements(Selected(idx, I)) = {idx[x] : x \in I}
  BY <1>1, SelectedMembers
<1> QED
  BY <1>2, <1>3, <1>4

\* The last event of a kind is the same, as there is one at most.
LEMMA LastAlike ==
    ASSUME NEW idx, NEW other, Alike(idx, other), NEW registry, NEW t \in {"vcp", "iss", "rev"}, NEW i
    PROVE LastOf(TransactionEvents(idx, registry), t, i) = LastOf(TransactionEvents(other, registry), t, i)
<1>1. PICK a, b : a = TransactionEvents(idx, registry) /\ b = TransactionEvents(other, registry)
  OBVIOUS
<1>2. PICK E : E = Elements(a)
  OBVIOUS
<1>3. a \in Seq(Elements(idx)) /\ b \in Seq(Elements(other)) /\ Elements(b) = E /\ E \subseteq Elements(idx)
  <2>1. Indexed(idx) /\ Indexed(other) /\ Elements(idx) = Elements(other)
    BY DEF Alike
  <2>2. /\ a \in Seq(Elements(idx))
        /\ E = {m \in Elements(idx) : /\ IsTelEventType(m.body.t)
                                      /\ registry = IF m.body.t = "vcp" THEN m.body.i ELSE m.body.ri}
    BY <1>1, <1>2, <2>1, RegistryElements
  <2>3. /\ b \in Seq(Elements(other))
        /\ Elements(b) = {m \in Elements(other) : /\ IsTelEventType(m.body.t)
                                                  /\ registry = IF m.body.t = "vcp" THEN m.body.i ELSE m.body.ri}
    BY <1>1, <2>1, RegistryElements
  <2> QED
    BY <2>1, <2>2, <2>3
<1>4. \A m, o \in E : m.body.t = t /\ m.body.i = i /\ o.body.t = t /\ o.body.i = i => m = o
  <2>1. Unique(Elements(idx))
    BY DEF Alike
  <2>2. \A m, o \in Elements(idx) : IsTelEventType(m.body.t) /\ m.body.t = o.body.t /\ m.body.i = o.body.i => m = o
    BY <2>1 DEF Unique
  <2> QED
    BY <1>3, <2>2 DEF IsTelEventType
<1> DEFINE Of == {m \in E : m.body.t = t /\ m.body.i = i}
<1>5. ASSUME NEW M, NEW list \in Seq(M), Elements(list) = E PROVE LastOf(list, t, i) = Of
  <2>1. PICK last : last = LastOf(list, t, i)
    OBVIOUS
  <2>2. \A m \in last : m \in Of
    BY <1>5, <2>1, LastFound
  <2>3. last = {} => Of = {}
    <3>1. last = {} => \A m \in Elements(list) : ~(m.body.t = t /\ m.body.i = i)
      BY <2>1, LastFound
    <3> QED
      BY <1>5, <3>1
  <2>4. \A m, o \in Of : m = o
    BY <1>4
  <2> QED
    BY <2>1, <2>2, <2>3, <2>4
<1>6. LastOf(a, t, i) = Of /\ LastOf(b, t, i) = Of
  <2>1. Elements(a) = E /\ Elements(b) = E
    BY <1>2, <1>3
  <2> HIDE DEF Of
  <2>2. LastOf(a, t, i) = Of
    BY <1>3, <1>5, <2>1
  <2>3. LastOf(b, t, i) = Of
    BY <1>3, <1>5, <2>1
  <2> QED
    BY <2>2, <2>3
<1> QED
  BY <1>1, <1>6

\* So are the checks of a credential.
LEMMA ChecksAlike ==
    ASSUME NEW idx, NEW other, Alike(idx, other), NEW issuer, NEW m
    PROVE Checks(idx, issuer, m) = Checks(other, issuer, m)
<1>1. /\ RegistryOf(idx, m.body) = RegistryOf(other, m.body)
      /\ IssuanceOf(idx, m.body) = IssuanceOf(other, m.body)
      /\ RevocationOf(idx, m.body) = RevocationOf(other, m.body)
  BY LastAlike DEF RegistryOf, IssuanceOf, RevocationOf
<1>2. RegistryCheck(idx, m.body) = RegistryCheck(other, m.body)
  BY <1>1 DEF RegistryCheck
<1>3. IssuanceCheck(idx, m) = IssuanceCheck(other, m)
  BY <1>1 DEF IssuanceCheck
<1>4. RevocationCheck(idx, m.body, issuer) = RevocationCheck(other, m.body, issuer)
  BY <1>1 DEF RevocationCheck
<1> QED
  BY <1>1, <1>2, <1>3, <1>4 DEF Checks

\* And the credential of a SAID.
LEMMA CredentialAlike ==
    ASSUME NEW idx, NEW other, Alike(idx, other), NEW said \in Saids(idx)
    PROVE CredentialOf(idx, said) = CredentialOf(other, said)
<1>1. ASSUME NEW list, Indexed(list)
      PROVE Elements(Credentials(list)) = {m \in Elements(list) : m.body.t = "acdc"}
  <2> DEFINE I == {x \in DOMAIN list : list[x].body.t = "acdc"}
  <2>1. I \in SUBSET (DOMAIN list) /\ list \in Seq(Elements(list))
    BY <1>1 DEF Indexed
  <2>2. Credentials(list) = Selected(list, I)
    BY DEF Credentials
  <2>3. {list[x] : x \in I} = {m \in Elements(list) : m.body.t = "acdc"}
    BY DEF Elements
  <2> HIDE DEF I
  <2>4. Elements(Selected(list, I)) = {list[x] : x \in I}
    BY <2>1, SelectedMembers
  <2> QED
    BY <2>2, <2>3, <2>4
<1>2. Elements(Credentials(idx)) = Elements(Credentials(other))
  BY <1>1 DEF Alike
<1> QED
  BY <1>2 DEF CredentialOf

\* A set put in any order is a list of what it has.
LEMMA SetInOrder ==
    ASSUME NEW T, IsFiniteSet(T)
    PROVE SetToSeq(T) \in Seq(T) /\ Elements(SetToSeq(T)) = T
<1>1. PICK n \in Nat : n = Cardinality(T) /\ ExistsBijection(1 .. n, T)
  BY FS_CardinalityType
<1>2. PICK g : g \in Bijection(1 .. n, T)
  BY <1>1 DEF ExistsBijection
<1>3. \E f \in [1 .. n -> T] : IsInjective(f)
  BY <1>2 DEF Bijection, Injection
<1>4. PICK f : f = SetToSeq(T)
  OBVIOUS
<1>5. f \in [1 .. n -> T] /\ IsInjective(f)
  BY <1>1, <1>3, <1>4 DEF SetToSeq
<1>6. f \in Injection(1 .. n, T)
  BY <1>5 DEF Injection
<1>7. f \in Surjection(1 .. n, T)
  <2>1. Cardinality(1 .. n) = n
    BY FS_Interval
  <2>2. PICK D : D = 1 .. n
    OBVIOUS
  <2> QED
    BY <1>1, <1>6, <2>1, <2>2, FS_Injection
<1>8. Elements(f) = T
  BY <1>5, <1>7 DEF Surjection, Elements
<1>9. f \in Seq(T)
  BY <1>5, SeqDef
<1> QED
  BY <1>4, <1>8, <1>9

\* The pieces in another order have the same messages.
LEMMA PiecesReordered ==
    ASSUME pieces \in Seq(Pieces)
    PROVE /\ FlattenSeq(pieces) \in Seq(SentMessages)
          /\ FlattenSeq(SetToSeq(Elements(pieces))) \in Seq(SentMessages)
          /\ Elements(FlattenSeq(SetToSeq(Elements(pieces)))) = Elements(FlattenSeq(pieces))
<1>1. pieces \in Seq(Seq(SentMessages))
  BY SentCopies, SeqDef
<1>2. Len(pieces) \in Nat /\ DOMAIN pieces = 1 .. Len(pieces)
  BY LenProperties
<1>3. PICK P : P = Elements(pieces)
  OBVIOUS
<1>4. P \subseteq Seq(SentMessages)
  BY <1>1, <1>2, <1>3, ElementOfSeq DEF Elements
<1>5. IsFiniteSet(P)
  <2>1. PICK f : f = [x \in 1 .. Len(pieces) |-> pieces[x]]
    OBVIOUS
  <2>2. f \in [1 .. Len(pieces) -> P] /\ \A t \in P : \E x \in 1 .. Len(pieces) : f[x] = t
    BY <1>2, <1>3, <2>1 DEF Elements
  <2> QED
    BY <1>2, <2>2, Enumerated
<1>6. PICK list : list = SetToSeq(P)
  OBVIOUS
<1>7. list \in Seq(P) /\ Elements(list) = P
  BY <1>5, <1>6, SetInOrder
<1>8. list \in Seq(Seq(SentMessages))
  BY <1>4, <1>7, SeqDef
<1>9. Elements(FlattenSeq(list)) = Elements(FlattenSeq(pieces))
  <2>1. Elements(FlattenSeq(list)) = UNION {Elements(l) : l \in Elements(list)}
    BY <1>8, FlattenElements
  <2>2. Elements(FlattenSeq(pieces)) = UNION {Elements(l) : l \in Elements(pieces)}
    BY <1>1, FlattenElements
  <2> QED
    BY <1>3, <1>7, <2>1, <2>2
<1> QED
  BY <1>1, <1>3, <1>6, <1>8, <1>9, FlattenIsSequence

\* The index is made from all pieces, and there is a log, or a reason, for each identifier.
CollectedIInv ==
    /\ pc # "collecting" => index = Flatten(FlattenSeq(pieces))
    /\ pc \in {"verifying", "done"} => DOMAIN logs = AidsOf(index)

\* Every step keeps that.
LEMMA NextCollected == CollectedIInv /\ [VerifyNext]_verifyVars => CollectedIInv'
<1> SUFFICES ASSUME CollectedIInv, [VerifyNext]_verifyVars PROVE CollectedIInv'
  OBVIOUS
<1>1. CASE UNCHANGED verifyVars
  BY <1>1 DEF CollectedIInv, verifyVars
<1>2. CASE \E piece \in Pieces : Receive(piece)
  <2>1. pc' = pc /\ pc = "collecting"
    BY <1>2 DEF Receive
  <2> QED
    BY <2>1 DEF CollectedIInv
<1>3. CASE Collect
  <2>1. pc' = "collected" /\ index' = Flatten(FlattenSeq(pieces)) /\ pieces' = pieces
    BY <1>3 DEF Collect
  <2> QED
    BY <2>1 DEF CollectedIInv
<1>4. CASE VerifyIdentifiers
  <2>1. /\ pc = "collected" /\ pc' = "verifying" /\ index' = index /\ pieces' = pieces
        /\ logs' = [aid \in AidsOf(index) |-> IssuerLog(index, aid)]
    BY <1>4 DEF VerifyIdentifiers
  <2>2. DOMAIN logs' = AidsOf(index)
    BY <2>1
  <2> QED
    BY <2>1, <2>2 DEF CollectedIInv
<1>5. CASE NextCredential \/ EdgeIsOpen \/ EdgeIsResolved \/ ResolveEdge \/ EdgesVerified \/ Report
  <2>1. index' = index /\ logs' = logs /\ pieces' = pieces /\ pc = "verifying"
    BY <1>5 DEF NextCredential, EdgeIsOpen, EdgeIsResolved, ResolveEdge, EdgesVerified, Report, NextEdge, AtEdge
  <2> QED
    BY <2>1 DEF CollectedIInv
<1> QED
  BY <1>1, <1>2, <1>3, <1>4, <1>5 DEF VerifyNext, Finished

\* verify, "a stream is a bag": what is said of the credentials and issuers of a stream that
\* does not contradict itself is the same for the same pieces in another order, as it
\* depends on the messages and not on which copy came first or came bare.
THEOREM StreamIsBag == VerifySpec => []OrderIsImmaterial
<1>1. VerifyInit => CollectedIInv
  BY DEF VerifyInit, CollectedIInv
<1>2. VerifySpec => [](StatusIInv /\ CollectedIInv)
  BY <1>1, InitStatus, NextStatus, NextCollected, VerifyInvariant, PTL DEF VerifySpec
<1>3. VerifyIInv /\ StatusIInv /\ CollectedIInv => OrderIsImmaterial
  <2> SUFFICES ASSUME VerifyIInv, StatusIInv, CollectedIInv, pc = "done",
                      Consistent(Pending(FlattenSeq(pieces))),
                      NEW other, other = Flatten(FlattenSeq(SetToSeq(Elements(pieces))))
               PROVE /\ \A aid \in AidsOf(index) : (logs[aid] = {}) = (IssuerLog(other, aid) = {})
                     /\ \A said \in Saids(index) :
                           LET m == CredentialOf(index, said)
                               o == CredentialOf(other, said)
                           IN  Checks(index, LogOf(m.body.i), m) = Checks(other, IssuerLog(other, o.body.i), o)
    BY DEF OrderIsImmaterial
  <2>1. index = Flatten(FlattenSeq(pieces)) /\ DOMAIN logs = AidsOf(index) /\ pieces \in Seq(Pieces)
    BY DEF CollectedIInv, VerifyIInv
  <2>2. PICK messages, others :
          messages = FlattenSeq(pieces) /\ others = FlattenSeq(SetToSeq(Elements(pieces)))
    OBVIOUS
  <2>3. messages \in Seq(SentMessages) /\ others \in Seq(SentMessages) /\ Elements(messages) = Elements(others)
    BY <2>1, <2>2, PiecesReordered
  <2>4. Alike(index, other)
    <3>1. Indexed(index) /\ Once(index) /\ Indexed(other) /\ Once(other)
      BY <2>1, <2>2, <2>3, FlattenIndexed, FlattenCovers
    <3>2. Elements(index) = Elements(other) /\ Unique(Elements(index))
      BY <2>1, <2>2, <2>3, FlattenAgrees
    <3>3. Numbered(index)
      BY DEF StatusIInv, Numbered, Genuine
    <3> QED
      BY <3>1, <3>2, <3>3 DEF Alike
  <2>5. \A aid : LogOf(aid) = IssuerLog(other, aid)
    <3> TAKE aid
    <3>1. IssuerLog(index, aid) = IssuerLog(other, aid)
      BY <2>4, IssuerLogAlike
    <3>2. CASE aid \in AidsOf(index)
      BY <2>1, <3>1, <3>2 DEF LogOf, StatusIInv
    <3>3. CASE aid \notin AidsOf(index)
      <4>1. KeyEventsOf(index, aid) = <<>>
        BY <3>3 DEF KeyEventsOf
      <4>2. IssuerLog(index, aid) = {}
        BY <4>1 DEF IssuerLog
      <4> QED
        BY <2>1, <3>1, <3>3, <4>2 DEF LogOf
    <3> QED
      BY <3>2, <3>3
  <2>6. \A aid \in AidsOf(index) : (logs[aid] = {}) = (IssuerLog(other, aid) = {})
    BY <2>1, <2>5 DEF LogOf
  <2>7. ASSUME NEW said \in Saids(index), NEW m, m = CredentialOf(index, said)
        PROVE /\ CredentialOf(other, said) = m
              /\ Checks(index, LogOf(m.body.i), m) = Checks(other, IssuerLog(other, m.body.i), m)
    BY <2>4, <2>5, <2>7, CredentialAlike, ChecksAlike
  <2> QED
    BY <2>6, <2>7
<1> QED
  BY <1>2, <1>3, VerifyInvariant, PTL

=============================================================================
