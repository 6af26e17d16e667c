---------------------------- MODULE EstateProofs ----------------------------
(***************************************************************************)
(* Proofs about Estate.  The tables themselves are opaque here but for     *)
(* what the assumptions of Wire, Classification, Catalogue and Estate say  *)
(* of them topic by topic, all of which TLC evaluates.  What follows is    *)
(* true of every event that is as Wire has it, and of every set of them.   *)
(***************************************************************************)
EXTENDS Estate, TLAPS

(* What activity makes of an event keeps the event. *)
LEMMA RecordOfEvent == \A e : classify(e).event = e
BY DEF classify, quarantine, Classified

(* And so does each notification. *)
LEMMA NoticeOfEvent == \A e : \A n \in Notices(e) : n.event = e
BY DEF Notices

(* No rule is for an erasure. *)
LEMMA ErasureTellsNobody == \A e : e.topic \in ERASURE_TOPICS => Notices(e) = {}
BY EveryTopicIsDecided DEF ERASURE_TOPICS, NON_NOTIFYING_TOPICS, hasRule, Notices

-----------------------------------------------------------------------------
(* What the tables say of one event, whatever it is: these lemmas are all that the theorems use of *)
(* them, and they follow from the facts that Estate states topic by topic.                         *)

OwnerIfUser(e) == IF e.owner \in Users THEN e.owner ELSE Nobody

(* A reader that looks where the producer names the owner gets the owner, if that is a user. *)
LEMMA ReadersFindTheOwner ==
    ASSUME NEW e, WellFormed(e), NEW reader, FindsOwner(reader, LineOf(e))
    PROVE  OwnerBy(reader, e) = OwnerIfUser(e)
<1>1. e.owner \in Users \cup {Org, Nobody} /\ Nobody \notin Users /\ Org \notin Users
  BY PartiesAreDistinct DEF WellFormed, EventRecord
<1>2. CASE reader.read = "key" /\ LineOf(e).keyed = "user"
  <2>1. e.owner \in Users
    BY <1>2 DEF WellFormed
  <2>2. Key(e) = [form |-> "uuid", of |-> e.owner]
    BY <1>2 DEF Key
  <2> QED
    BY <1>2, <2>1, <2>2 DEF OwnerBy, userFromKey, OwnerIfUser
<1>3. CASE reader.read = "subjectKey" /\ LineOf(e).keyed = "subject"
  <2>1. Key(e) = [form |-> "subject", of |-> e.owner]
    BY <1>3 DEF Key
  <2> QED
    BY <1>3, <2>1 DEF OwnerBy, userFromSubjectKey, subjectUser, OwnerIfUser
<1>4. CASE reader.read = "actor" /\ LineOf(e).actor = "owner"
  BY <1>4 DEF OwnerBy, userFromActor, ActorUser, Party, OwnerIfUser
<1>5. ASSUME NEW f, FieldIs(LineOf(e), f, Id("owner")) PROVE UuidIn(e, f) = OwnerIfUser(e)
  BY <1>5 DEF FieldIs, Id, UuidIn, TextIn, Party, OwnerIfUser
<1>6. CASE reader.read = "uuid" /\ FieldIs(LineOf(e), reader.field, Id("owner"))
  BY <1>5, <1>6 DEF OwnerBy, userFromPayload
<1>7. CASE reader.read = "subject" /\ FieldIs(LineOf(e), reader.field, Subj("owner"))
  <2>1. SubjectIn(e, reader.field) = e.owner
    BY <1>7 DEF FieldIs, Subj, SubjectIn, Party
  <2> QED
    BY <1>7, <2>1 DEF OwnerBy, userFromSubjectField, subjectUser, OwnerIfUser
<1> QED
  BY <1>2, <1>3, <1>4, <1>6, <1>7 DEF FindsOwner

(* And so does `userIdOf', which looks in three places, wherever what it finds is a user at all. *)
LEMMA UserIsTheOwner ==
    ASSUME NEW e, WellFormed(e), FindsUser(LineOf(e)), userIdOf(e) \in Users
    PROVE  userIdOf(e) = e.owner
<1>1. e.owner \in Users \cup {Org, Nobody} /\ Nobody \notin Users
  BY PartiesAreDistinct DEF WellFormed, EventRecord
<1>2. CASE FieldIs(LineOf(e), "userId", Id("owner"))
  <2>1. TextIn(e, "userId") = e.owner
    BY <1>2 DEF FieldIs, Id, TextIn, Party
  <2>2. CASE e.owner # Nobody
    BY <2>1, <2>2 DEF userIdOf
  <2>3. CASE e.owner = Nobody
    <3>1. LineOf(e).keyed # "user" /\ LineOf(e).actor # "other"
      BY <1>1, <1>2, <2>3 DEF WellFormed, FieldIs
    <3>2. ActorUser(e) = Nobody
      BY <1>1, <2>3, <3>1 DEF ActorUser, Party
    <3> QED
      BY <1>1, <2>1, <2>3, <3>1, <3>2 DEF userIdOf
  <2> QED
    BY <2>2, <2>3
<1>3. CASE "userId" \notin DOMAIN LineOf(e).fields /\ LineOf(e).keyed = "user"
  <2>1. TextIn(e, "userId") = Nobody
    BY <1>3 DEF TextIn
  <2>2. Key(e).of = e.owner /\ e.owner \in Users
    BY <1>3 DEF Key, WellFormed
  <2> QED
    BY <1>1, <1>3, <2>1, <2>2 DEF userIdOf
<1>4. CASE /\ "userId" \notin DOMAIN LineOf(e).fields
           /\ LineOf(e).keyed # "user" /\ LineOf(e).actor = "owner"
  <2>1. TextIn(e, "userId") = Nobody
    BY <1>4 DEF TextIn
  <2> QED
    BY <1>1, <1>4, <2>1 DEF userIdOf, ActorUser, Party
<1> QED
  BY <1>2, <1>3, <1>4 DEF FindsUser

(* Whose record it is: the owner's, or nobody's. *)
LEMMA WhoseRecord ==
    ASSUME NEW e, WellFormed(e)
    PROVE  /\ classify(e).owner \in {Nobody, OwnerIfUser(e)}
           /\ e.topic \in TOPICS /\ CLASSIFIERS[e.topic].owner # NoOwner =>
                classify(e).owner = OwnerIfUser(e)
<1>1. CASE e.topic \notin TOPICS
  BY <1>1 DEF classify, known, quarantine, Classified
<1>2. CASE e.topic \in TOPICS
  <2> DEFINE reader == CLASSIFIERS[e.topic].owner
  <2>1. classify(e).owner = OwnerBy(reader, e)
    BY <1>2 DEF classify, known, Classified
  <2>2. CASE reader = NoOwner
    <3>1. OwnerBy(NoOwner, e) = Nobody
      BY DEF OwnerBy, NoOwner
    <3> QED
      BY <1>2, <2>1, <2>2, <3>1
  <2>3. CASE reader # NoOwner
    <3>1. FindsOwner(reader, LineOf(e))
      BY <1>2, <2>3, ClassifiersReadTheOwner DEF LineOf
    <3> QED
      BY <2>1, <3>1, ReadersFindTheOwner
  <2> QED
    BY <1>2, <2>2, <2>3
<1> QED
  BY <1>1, <1>2

(* What keeps a record apart from other people: of those it mentions only its owner is a user, or  *)
(* it is nobody's.                                                                                 *)
LEMMA OwnedRecordsMentionNobodyElse ==
    ASSUME NEW e, WellFormed(e)
    PROVE  /\ classify(e).owner \in Users \cup {Nobody}
           /\ \A u \in Users : Mentions(classify(e), u) => classify(e).owner \in {Nobody, u}
<1>1. classify(e).owner \in {Nobody, OwnerIfUser(e)}
  BY WhoseRecord
<1>2. SUFFICES ASSUME NEW u \in Users, Mentions(classify(e), u), classify(e).owner # Nobody
               PROVE  u = e.owner
  BY <1>1 DEF OwnerIfUser
<1>3. e.topic \in TOPICS /\ CLASSIFIERS[e.topic].owner # NoOwner
  <2>1. OwnerBy(NoOwner, e) = Nobody
    BY DEF OwnerBy, NoOwner
  <2> QED
    BY <1>2, <2>1 DEF classify, known, quarantine, Classified
<1>4. CASE u = classify(e).owner
  BY <1>1, <1>2, <1>4 DEF OwnerIfUser
<1>5. CASE u = classify(e).urn
  <2>1. classify(e).urn = Key(e).of
    BY DEF classify, quarantine, Classified
  <2>2. Key(e).of \in {e.owner, Chain, Thing, e.fact, SessionOf[e.fact]}
    BY DEF Key
  <2>3. e.fact \in Facts
    BY DEF WellFormed, EventRecord
  <2> QED
    BY <1>5, <2>1, <2>2, <2>3, PartiesAreDistinct, SessionsAreDistinct
<1>6. CASE u \in classify(e).names
  <2>1. classify(e).names = Keeps(e, CLASSIFIERS[e.topic].payloadKeys)
    BY <1>3 DEF classify, known, Classified
  <2>2. PICK f \in DOMAIN LineOf(e).fields \cap CLASSIFIERS[e.topic].payloadKeys : u \in NamedIn(e, f)
    BY <1>6, <2>1 DEF Keeps
  <2>3. LineOf(e).fields[f].role # "other"
    BY <1>3, <2>2, ClassifiersReadTheOwner DEF LineOf
  <2>4. e.owner \in Users
    BY <1>1, <1>2 DEF OwnerIfUser
  <2>5. Nobody \notin Users
    BY PartiesAreDistinct
  <2>6. Party(e, LineOf(e).fields[f].role) \in {e.owner, Nobody}
    BY <2>3 DEF Party
  <2>7. UuidIn(e, f) \in {e.owner, Nobody} /\ SubjectIn(e, f) \in {e.owner, Nobody}
    BY <2>6 DEF UuidIn, TextIn, SubjectIn
  <2>8. ListIn(e, f) \subseteq {e.owner}
    BY <2>4 DEF ListIn
  <2> QED
    BY <2>2, <2>5, <2>7, <2>8 DEF NamedIn
<1> QED
  BY <1>2, <1>4, <1>5, <1>6 DEF Mentions

-----------------------------------------------------------------------------
(* Whom a notification goes to, if that is a user at all: the owner, or a member of the list.      *)
LEMMA WhoIsTold ==
    ASSUME NEW e, WellFormed(e), NEW n \in Notices(e), n.to \in Users
    PROVE  /\ hasRule(e.topic) /\ Decides(RULES[e.topic].applies, e)
           /\ n.event = e /\ n.second = IsVariant(e) /\ n.key = dedupeKey(e, n.to)
           /\ \/ RULES[e.topic].to = Members /\ n.to \in ListIn(e, "userIds")
              \/ RULES[e.topic].to # Members /\ n.to = e.owner
<1>1. /\ hasRule(e.topic) /\ n.to \in recipients(e) /\ n.event = e /\ n.second = IsVariant(e)
      /\ n.key = dedupeKey(e, n.to)
  BY DEF Notices
<1> DEFINE to == RULES[e.topic].to
<1>2. Decides(RULES[e.topic].applies, e)
  BY <1>1 DEF recipients
<1>3. e.owner \in Users \cup {Org, Nobody} /\ Nobody \notin Users
  BY PartiesAreDistinct DEF WellFormed, EventRecord
<1>4. CASE to = Members
  <2>1. to.read = "list" /\ to.field = "userIds"
    BY <1>4 DEF Members
  <2>2. n.to \in ListIn(e, "userIds")
    BY <1>1, <1>2, <2>1 DEF recipients, membersOf
  <2> QED
    BY <1>1, <1>2, <1>4, <2>2
<1>5. CASE to = ForUser /\ FindsUser(LineOf(e))
  <2> HIDE DEF to
  <2>0. Members.read = "list" /\ ForUser.read = "user"
    BY DEF ForUser, Members
  <2>1. to.read = "user" /\ to # Members
    BY <1>5, <2>0
  <2> USE DEF to
  <2>2. n.to = userIdOf(e)
    BY <1>1, <1>2, <2>1 DEF recipients
  <2>3. n.to = e.owner
    BY <1>5, <2>2, UserIsTheOwner
  <2> QED
    BY <1>1, <1>2, <2>1, <2>3
<1>6. CASE to.read \in {"uuid", "subject"} /\ FindsOwner(to, LineOf(e))
  <2>1. to # Members
    BY <1>6 DEF Members
  <2>2. OwnerBy(to, e) = OwnerIfUser(e)
    BY <1>6, ReadersFindTheOwner
  <2>3. CASE to.read = "uuid"
    <3>1. n.to = TextIn(e, to.field)
      BY <1>1, <1>2, <2>3 DEF recipients
    <3>2. OwnerBy(to, e) = n.to
      BY <2>3, <3>1 DEF OwnerBy, userFromPayload, UuidIn
    <3> QED
      BY <1>1, <1>2, <1>3, <2>1, <2>2, <3>2 DEF OwnerIfUser
  <2>4. CASE to.read = "subject"
    <3>1. n.to = userOfSubject(SubjectIn(e, to.field))
      BY <1>1, <1>2, <2>4 DEF recipients
    <3>2. OwnerBy(to, e) = userOfSubject(SubjectIn(e, to.field))
      BY <2>4 DEF OwnerBy, userFromSubjectField, subjectUser, userOfSubject
    <3> QED
      BY <1>1, <1>2, <1>3, <2>1, <2>2, <3>1, <3>2 DEF OwnerIfUser
  <2> QED
    BY <1>6, <2>3, <2>4
<1> QED
  BY <1>1, <1>4, <1>5, <1>6, RulesTellTheOwner DEF hasRule, LineOf

-----------------------------------------------------------------------------
(* A dedupe key says which fact it is.                                                             *)

(* What a key names is an id of the event, of its fact, session or thing, a party or a chain. *)
LEMMA NamedAmong ==
    ASSUME NEW e, WellFormed(e), NEW key
    PROVE  Named(key, e) \in {e.fact, SessionOf[e.fact], e.id, e.owner, Thing, Chain}
<1>1. Key(e).of \in {e.fact, SessionOf[e.fact], e.owner, Thing, Chain}
  BY DEF Key
<1>2. Fallback(key, e) \in {e.id, Key(e).of}
  BY DEF Fallback
<1>3. PayloadId(e) \in {Nobody, Thing, e.fact}
  BY DEF PayloadId
<1> QED
  BY <1>1, <1>2, <1>3 DEF Named

(* For a fact that is identified it is the fact, its session or the event; and the event where the *)
(* payload has no id but a lasting thing's to name.                                                *)
LEMMA NamedIsTheFact ==
    ASSUME NEW e, WellFormed(e), hasRule(e.topic), Identified(e)
    PROVE  /\ Named(RULES[e.topic].key, e) \in {e.fact, SessionOf[e.fact], e.id}
           /\ HasOneKey(e) => Named(RULES[e.topic].key, e) = e.fact
<1> DEFINE key == RULES[e.topic].key
<1>1. e.fact # Nobody
  BY PartiesAreDistinct DEF WellFormed, EventRecord
<1>2. \/ e.carries = "fact"
      \/ e.carries = "nothing" /\ (LineOf(e).keyed \in {"fact", "session"} \/ key.fallback = "id")
  BY DEF Identified
<1>3. e.carries = "fact" => key.payload \/ key = ById \/ (key = ByKey /\ LineOf(e).keyed = "fact")
  BY FactsAreKeyed DEF LineOf, hasRule, WellFormed
<1>4. /\ LineOf(e).keyed = "fact" => Key(e).of = e.fact
      /\ LineOf(e).keyed = "session" => Key(e).of = SessionOf[e.fact]
  BY DEF Key
<1>5. HasOneKey(e) =>
        /\ key # ById
        /\ e.carries = "fact" \/ (LineOf(e).keyed = "fact" /\ key \in {ThingElseKey, ByKey})
  BY DEF HasOneKey
<1>6. ~ById.payload /\ ById.fallback = "id" /\ ~ByKey.payload /\ ByKey.fallback = "key"
  BY DEF ById, ByKey
<1>7. ThingElseKey.payload /\ ThingElseKey.fallback = "key"
  BY DEF ThingElseKey
<1> HIDE DEF key
<1>8. CASE key.payload /\ e.carries = "fact"
  <2>1. PayloadId(e) = e.fact
    BY <1>8 DEF PayloadId
  <2> QED
    BY <1>1, <1>8, <2>1 DEF Named, key
<1>9. CASE e.carries = "nothing"
  <2>1. PayloadId(e) = Nobody
    BY <1>9 DEF PayloadId
  <2>2. Named(key, e) = Fallback(key, e)
    BY <2>1 DEF Named
  <2>3. CASE key.fallback = "id"
    BY <1>5, <1>6, <1>7, <1>9, <2>2, <2>3 DEF Fallback, key
  <2>4. CASE key.fallback # "id"
    BY <1>2, <1>4, <1>5, <1>9, <2>2, <2>4 DEF Fallback, key
  <2> QED
    BY <2>3, <2>4
<1>10. CASE ~key.payload /\ e.carries = "fact"
  <2>1. Named(key, e) = Fallback(key, e)
    BY <1>10 DEF Named
  <2>2. CASE key = ById
    BY <1>5, <1>6, <2>1, <2>2 DEF Fallback, key
  <2>3. CASE key = ByKey /\ LineOf(e).keyed = "fact"
    BY <1>4, <1>6, <2>1, <2>3 DEF Fallback, key
  <2> QED
    BY <1>3, <1>10, <2>2, <2>3
<1> QED
  BY <1>2, <1>8, <1>9, <1>10

(* Where the payload could name nothing but a lasting thing, it is the event. *)
LEMMA ThingsStandAside ==
    ASSUME NEW e, WellFormed(e), hasRule(e.topic), Identified(e), LineOf(e).names = "thing"
    PROVE  Named(RULES[e.topic].key, e) = e.id
<1>1. e.carries # "fact"
  BY DEF WellFormed
<1>2. LineOf(e).keyed \notin {"fact", "session"}
  BY FactsAreKeyed DEF hasRule, LineOf
<1>3. e.carries = "nothing" /\ RULES[e.topic].key.fallback = "id"
  BY <1>1, <1>2 DEF Identified
<1>4. PayloadId(e) = Nobody
  BY <1>3 DEF PayloadId
<1> QED
  BY <1>3, <1>4 DEF Named, Fallback

(* The first part of a key is the prefix, or the variant where that is told apart. *)
First(e) == IF RULES[e.topic].keyTells /\ IsVariant(e) THEN RULES[e.topic].variant
            ELSE RULES[e.topic].prefix
LEMMA PartsOfAKey ==
    ASSUME NEW e, NEW u
    PROVE  /\ dedupeKey(e, u) = <<First(e), Named(RULES[e.topic].key, e), Beside(RULES[e.topic].key, e, u)>>
           /\ First(e) \in Prefixes(e.topic)
<1>1. dedupeKey(e, u) = <<First(e), Named(RULES[e.topic].key, e), Beside(RULES[e.topic].key, e, u)>>
  BY DEF dedupeKey, First
<1>2. First(e) \in Prefixes(e.topic)
  BY DEF First, Prefixes
<1> QED
  BY <1>1, <1>2

(* A key that two events share stands for one fact. *)
LEMMA KeysTellFactsApart ==
    ASSUME NEW d, NEW e, WellFormed(d), WellFormed(e), d.id = e.id => d = e,
           NEW m \in Notices(d), NEW n \in Notices(e), m.to \in Users,
           m.to = n.to, m.key = n.key, Identified(e)
    PROVE  SameNews(d, e)
<1>1. hasRule(d.topic) /\ hasRule(e.topic) /\ m.key = dedupeKey(d, m.to) /\ n.key = dedupeKey(e, n.to)
  BY WhoIsTold
<1>2. First(d) = First(e) /\ Named(RULES[d.topic].key, d) = Named(RULES[e.topic].key, e)
  <2>1. dedupeKey(d, m.to) = dedupeKey(e, n.to)
    BY <1>1
  <2>2. /\ First(d) = dedupeKey(d, m.to)[1] /\ Named(RULES[d.topic].key, d) = dedupeKey(d, m.to)[2]
        /\ First(e) = dedupeKey(e, n.to)[1] /\ Named(RULES[e.topic].key, e) = dedupeKey(e, n.to)[2]
    BY PartsOfAKey
  <2> QED
    BY <2>1, <2>2
<1> DEFINE name == Named(RULES[e.topic].key, e)
<1>3. /\ name \in {e.fact, SessionOf[e.fact], e.id}
      /\ name \in {d.fact, SessionOf[d.fact], d.id, d.owner, Thing, Chain}
  BY <1>1, <1>2, NamedAmong, NamedIsTheFact
<1>4. /\ d.fact \in Facts /\ d.id \in EventIds /\ d.owner \in Users \cup {Org, Nobody}
      /\ e.fact \in Facts /\ e.id \in EventIds
  BY DEF WellFormed, EventRecord
<1>5. LineOf(e).names = "thing" => name = e.id
  BY <1>1, ThingsStandAside
<1> HIDE DEF name
<1>6. CASE name = e.id
  <2>1. name = d.id
    BY <1>3, <1>4, <1>6, PartiesAreDistinct, SessionsAreDistinct
  <2>2. d = e
    BY <1>6, <2>1
  <2> QED
    BY <2>2 DEF SameNews
<1>7. CASE name # e.id
  <2>1. d.fact = e.fact
    <3>1. CASE name = e.fact
      <4>1. name = d.fact
        BY <1>3, <1>4, <3>1, PartiesAreDistinct, SessionsAreDistinct
      <4> QED
        BY <3>1, <4>1
    <3>2. CASE name = SessionOf[e.fact]
      <4>1. name = SessionOf[d.fact]
        BY <1>3, <1>4, <3>2, PartiesAreDistinct, SessionsAreDistinct
      <4> QED
        BY <1>4, <3>2, <4>1, SessionsAreDistinct
    <3> QED
      BY <1>3, <1>7, <3>1, <3>2
  <2>2. d.topic = e.topic \/ {d.topic, e.topic} \subseteq OneRegister
    <3>1. Prefixes(d.topic) \cap Prefixes(e.topic) # {}
      BY <1>2, PartsOfAKey
    <3>2. Lines[e.topic].names # "thing"
      BY <1>5, <1>7 DEF LineOf
    <3> QED
      BY <1>1, <3>1, <3>2, PrefixesTellTopicsApart DEF hasRule
  <2>3. ASSUME d.topic \in Outcomes PROVE IsVariant(d) <=> IsVariant(e)
    <3>1. d.topic = e.topic
      BY <2>2, <2>3 DEF Outcomes, OneRegister
    <3>2. RULES[d.topic].keyTells /\ RULES[d.topic].variant # RULES[d.topic].prefix
      BY <1>1, <2>3, PrefixesTellOutcomesApart DEF hasRule
    <3> QED
      BY <1>2, <3>1, <3>2 DEF First
  <2> QED
    BY <2>1, <2>2, <2>3 DEF SameNews
<1> QED
  BY <1>6, <1>7

(* And one fact has one key. *)
LEMMA FactsHaveOneKey ==
    ASSUME NEW d, NEW e, WellFormed(d), WellFormed(e),
           NEW m \in Notices(d), NEW n \in Notices(e), m.to \in Users, m.to = n.to,
           SameNews(d, e), HasOneKey(d), HasOneKey(e)
    PROVE  m.key = n.key
<1>1. hasRule(d.topic) /\ hasRule(e.topic) /\ m.key = dedupeKey(d, m.to) /\ n.key = dedupeKey(e, n.to)
  BY WhoIsTold
<1>2. d.fact = e.fact /\ (d.topic = e.topic \/ {d.topic, e.topic} \subseteq OneRegister)
  BY DEF SameNews
<1>3. First(d) = First(e)
  <2>1. CASE d.topic = e.topic /\ d.topic \in Outcomes
    BY <2>1 DEF SameNews, First
  <2>2. CASE d.topic \notin Outcomes
    <3>1. e.topic \notin Outcomes
      BY <1>2, <2>2 DEF Outcomes, OneRegister
    <3>2. First(d) = RULES[d.topic].prefix /\ First(e) = RULES[e.topic].prefix
      BY <1>1, <2>2, <3>1, PrefixesTellOutcomesApart DEF First, hasRule
    <3> QED
      BY <1>2, <3>2, OneRegisterHasOneKey
  <2> QED
    BY <1>2, <2>1, <2>2 DEF Outcomes, OneRegister
<1>4. Named(RULES[d.topic].key, d) = Named(RULES[e.topic].key, e)
  BY <1>1, <1>2, NamedIsTheFact DEF HasOneKey
<1>5. ASSUME NEW f, WellFormed(f), hasRule(f.topic), HasOneKey(f), NEW u
      PROVE  Beside(RULES[f.topic].key, f, u) = Nobody
  <2>1. f.carries = "fact" \/ RULES[f.topic].key \in {ThingElseKey, ByKey}
    BY <1>5 DEF HasOneKey
  <2>3. CASE f.carries = "fact"
    <3>1. PayloadId(f) = f.fact /\ f.fact # Nobody
      BY <1>5, <2>3, PartiesAreDistinct DEF PayloadId, WellFormed, EventRecord
    <3>2. RULES[f.topic].key.beside \in {"nothing", "season", "slot"}
      BY <1>5, <2>3, FactsAreKeyed DEF LineOf, hasRule, WellFormed
    <3> QED
      BY <3>1, <3>2 DEF Beside
  <2>4. CASE RULES[f.topic].key \in {ThingElseKey, ByKey}
    <3>1. ThingElseKey.beside = "nothing" /\ ByKey.beside = "nothing"
      BY DEF ThingElseKey, ByKey
    <3>2. RULES[f.topic].key.beside = "nothing"
      BY <2>4, <3>1
    <3> QED
      BY <3>2 DEF Beside
  <2> QED
    BY <2>1, <2>3, <2>4
<1> QED
  BY <1>1, <1>3, <1>4, <1>5, PartsOfAKey

-----------------------------------------------------------------------------
(* Both sinks hold what they made of published events, and of nothing else. *)
THEOREM TypeCorrect == Spec => []TypeOK
<1>1. Init => TypeOK
  BY StoriesAreEvents DEF Init, TypeOK
<1>2. TypeOK /\ [Next]_vars => TypeOK'
  <2> SUFFICES ASSUME TypeOK, [Next]_vars PROVE TypeOK'
    OBVIOUS
  <2>1. CASE UNCHANGED vars
    BY <2>1 DEF TypeOK, vars, activity, notify
  <2>2. ASSUME NEW e \in bus, Record(e) PROVE TypeOK'
    BY <2>2, RecordOfEvent DEF TypeOK, Record, Written, notify
  <2>3. ASSUME NEW e \in bus, eraseUser(e) PROVE TypeOK'
    BY <2>3 DEF TypeOK, eraseUser, notify
  <2>4. ASSUME NEW e \in bus, Tell(e) PROVE TypeOK'
    BY <2>4, NoticeOfEvent DEF TypeOK, Tell, Insertable, activity
  <2>5. ASSUME NEW e \in bus, EraseNotices(e) PROVE TypeOK'
    <3>1. Notices(e) = {}
      BY <2>5, ErasureTellsNobody DEF EraseNotices
    <3> QED
      BY <2>5, <3>1 DEF TypeOK, EraseNotices, Insertable, activity
  <2> QED
    BY <2>1, <2>2, <2>3, <2>4, <2>5 DEF Next
<1> QED
  BY <1>1, <1>2, PTL DEF Spec

(* The behaviour never leaves the story it began with. *)
LEMMA OneStory == Spec => [](bus \in Stories)
<1>1. Init => bus \in Stories
  BY DEF Init
<1>2. bus \in Stories /\ [Next]_vars => (bus \in Stories)'
  BY DEF Next, Record, eraseUser, Tell, EraseNotices, vars
<1> QED
  BY <1>1, <1>2, PTL DEF Spec

(* What is published is well formed, and no two events have one id. *)
LEMMA Published ==
    ASSUME bus \in Stories
    PROVE  \A d, e \in bus : WellFormed(e) /\ (d.id = e.id => d = e)
BY StoriesAreEvents

-----------------------------------------------------------------------------
(* A record belongs to, and a notification goes to, somebody whom the event concerns: the readers  *)
(* of both tables find the owner or nobody.                                                        *)
THEOREM NewsIsTheOwners == Spec => []NewsReachesTheConcerned
<1>1. TypeOK => NewsReachesTheConcerned
  <2> SUFFICES ASSUME TypeOK PROVE NewsReachesTheConcerned
    OBVIOUS
  <2>1. ASSUME NEW w \in feed
        PROVE  w.record.owner = Nobody \/ w.record.owner \in Concerned(w.record.event)
    <3>1. w.record = classify(w.record.event) /\ WellFormed(w.record.event)
      BY DEF TypeOK
    <3>2. w.record.owner \in {Nobody, OwnerIfUser(w.record.event)}
      BY <3>1, WhoseRecord
    <3> QED
      BY <3>2 DEF OwnerIfUser, Concerned
  <2>2. ASSUME NEW n \in told PROVE n.to \in Concerned(n.event)
    <3>1. n \in Notices(n.event) /\ WellFormed(n.event) /\ n.to \in Users
      BY DEF TypeOK
    <3>2. n.to \in Users /\ (n.to \in ListIn(n.event, "userIds") \/ n.to = n.event.owner)
      BY <3>1, WhoIsTold
    <3> QED
      BY <3>2 DEF Concerned
  <2> QED
    BY <2>1, <2>2 DEF NewsReachesTheConcerned
<1> QED
  BY <1>1, TypeCorrect, PTL

(* Whoever is told of an event alone has its record. *)
LEMMA ToldAndRecorded ==
    ASSUME NEW e, WellFormed(e), NEW n \in Notices(e), n.to \in Users
    PROVE  \/ classify(e).owner = n.to
           \/ classify(e).owner = Nobody /\ ListIn(e, "userIds") # {}
<1>1. n.to \in Users /\ hasRule(e.topic)
  BY WhoIsTold
<1>2. CASE RULES[e.topic].to = Members
  <2>1. n.to \in ListIn(e, "userIds")
    BY <1>2, WhoIsTold
  <2>2. classify(e).owner # Nobody => classify(e).owner = e.owner /\ e.owner \in Users
    BY WhoseRecord DEF OwnerIfUser
  <2>3. e.owner \in Users => n.to = e.owner
    BY <2>1 DEF ListIn
  <2> QED
    BY <2>1, <2>2, <2>3
<1>3. CASE RULES[e.topic].to # Members
  <2>1. n.to = e.owner
    BY <1>3, WhoIsTold
  <2>2. CLASSIFIERS[e.topic].owner # NoOwner
    BY <1>1, <1>3, RulesTellTheOwner DEF hasRule
  <2>3. e.topic \in TOPICS
    BY <1>1, EveryTopicIsDecided DEF unregisteredRuleTopics, hasRule
  <2>4. classify(e).owner = OwnerIfUser(e)
    BY <2>2, <2>3, WhoseRecord
  <2> QED
    BY <1>1, <2>1, <2>4 DEF OwnerIfUser
<1> QED
  BY <1>2, <1>3

(* And where a topic reports two facts, reads of the same one. *)
LEMMA SameFactInBoth ==
    ASSUME NEW e, WellFormed(e), NEW n \in Notices(e), n.to \in Users, e.topic \in TwoFacts
    PROVE  ToldSecond(n) = classify(e).second
<1>1. n.event = e /\ n.second = IsVariant(e) /\ Decides(RULES[e.topic].applies, e)
  BY WhoIsTold
<1>2. classify(e).second = (e.says = "yes")
  <2>1. e.topic \in TOPICS /\ CLASSIFIERS[e.topic].second = "exact"
    BY EveryTopicIsDecided DEF TwoFacts, unregisteredRuleTopics
  <2>2. ReadsAs(CLASSIFIERS[e.topic], e) = (e.says = "yes")
    BY <2>1 DEF ReadsAs
  <2> QED
    BY <2>1, <2>2 DEF classify, known, Classified
<1>3. Decides("exact", e) = (e.says = "yes") /\ Decides("not exact", e) = ~(e.says = "yes")
  BY DEF Decides, refunded
<1>4. CASE RULES[e.topic].when = "exact"
  <2>1. IsVariant(e) = (e.says = "yes")
    BY <1>3, <1>4 DEF IsVariant
  <2> QED
    BY <1>1, <1>2, <1>4, <2>1 DEF ToldSecond
<1>5. CASE RULES[e.topic].when = "never" /\ RULES[e.topic].applies = "exact"
  BY <1>1, <1>2, <1>3, <1>5 DEF ToldSecond
<1>6. CASE RULES[e.topic].when = "never" /\ RULES[e.topic].applies = "not exact"
  BY <1>1, <1>2, <1>3, <1>6 DEF ToldSecond
<1> QED
  BY <1>4, <1>5, <1>6, FactsAreSplitAlike

(* The two tables read every event alike. *)
THEOREM TablesAgree == Spec => []TheSinksAgree
<1>1. TypeOK => TheSinksAgree
  <2> SUFFICES ASSUME TypeOK, NEW n \in told, NEW w \in feed, n.event = w.record.event
               PROVE  /\ \/ w.record.owner = n.to
                         \/ w.record.owner = Nobody /\ ListIn(n.event, "userIds") # {}
                      /\ n.event.topic \in TwoFacts => ToldSecond(n) = w.record.second
    BY DEF TheSinksAgree
  <2>1. /\ n \in Notices(n.event) /\ WellFormed(n.event) /\ n.to \in Users
        /\ w.record = classify(n.event)
    BY DEF TypeOK
  <2> QED
    BY <2>1, ToldAndRecorded, SameFactInBoth
<1> QED
  BY <1>1, TypeCorrect, PTL

-----------------------------------------------------------------------------
(* What mentions an erased user was written after the erasure: the delete reaches the rows the     *)
(* user owns and the rows nobody owns, and there are no others that mention the user.              *)
ErasedAreUsers == erasedA \subseteq Users

LEMMA EraseeIsAUser ==
    ASSUME NEW e, WellFormed(e), Erases(e)
    PROVE  classify(e).owner \in Users
BY OwnedRecordsMentionNobodyElse DEF Erases

(* A record the delete leaves alone does not mention the user who is erased. *)
LEMMA NothingElseMentions ==
    ASSUME NEW d, WellFormed(d), NEW u \in Users, ~IsOf(classify(d), u)
    PROVE  ~Mentions(classify(d), u)
<1> SUFFICES ASSUME Mentions(classify(d), u) PROVE FALSE
  OBVIOUS
<1>1. classify(d).owner \in {Nobody, u}
  BY OwnedRecordsMentionNobodyElse
<1>2. u # Nobody
  BY PartiesAreDistinct
<1> QED
  BY <1>1, <1>2 DEF IsOf, Mentions

THEOREM ErasureReachesEverything == Spec => []ErasureIsComplete
<1> DEFINE IInv == TypeOK /\ ErasedAreUsers /\ ErasureIsComplete
<1>1. Init => ErasedAreUsers /\ ErasureIsComplete
  BY DEF Init, ErasedAreUsers, ErasureIsComplete
<1>2. IInv /\ [Next]_vars => ErasedAreUsers' /\ ErasureIsComplete'
  <2> SUFFICES ASSUME IInv, [Next]_vars PROVE ErasedAreUsers' /\ ErasureIsComplete'
    OBVIOUS
  <2>1. CASE UNCHANGED vars
    BY <2>1 DEF ErasedAreUsers, ErasureIsComplete, vars, activity, notify
  <2>2. ASSUME NEW e \in bus, Record(e) PROVE ErasedAreUsers' /\ ErasureIsComplete'
    <3>1. \A w \in feed' : w \in feed \/ w.since = erasedA
      BY <2>2 DEF Record, Written
    <3> QED
      BY <2>2, <3>1 DEF ErasedAreUsers, ErasureIsComplete, Record
  <2>3. ASSUME NEW e \in bus, eraseUser(e) PROVE ErasedAreUsers' /\ ErasureIsComplete'
    <3> DEFINE u == classify(e).owner
    <3>1. u \in Users
      BY <2>3, EraseeIsAUser DEF eraseUser, TypeOK
    <3>2. \A w \in feed' : w \in feed /\ ~IsOf(w.record, u)
      BY <2>3 DEF eraseUser
    <3>3. ASSUME NEW w \in feed' PROVE ~Mentions(w.record, u)
      <4>1. w.record = classify(w.record.event) /\ WellFormed(w.record.event)
        BY <3>2 DEF TypeOK
      <4> QED
        BY <3>1, <3>2, <4>1, NothingElseMentions
    <3>4. erasedA' = erasedA \cup {u}
      BY <2>3 DEF eraseUser
    <3> HIDE DEF u
    <3> QED
      BY <3>1, <3>2, <3>3, <3>4 DEF ErasedAreUsers, ErasureIsComplete
  <2>4. ASSUME NEW e \in bus, Tell(e) \/ EraseNotices(e)
        PROVE  ErasedAreUsers' /\ ErasureIsComplete'
    BY <2>4 DEF ErasedAreUsers, ErasureIsComplete, Tell, EraseNotices, activity
  <2> QED
    BY <2>1, <2>2, <2>3, <2>4 DEF Next
<1>3. IInv => ErasureIsComplete
  OBVIOUS
<1> QED
  BY <1>1, <1>2, <1>3, TypeCorrect, PTL DEF Spec

-----------------------------------------------------------------------------
(* Among the notifications a user has, each has a key of its own. *)
KeysAreUnique == \A m, n \in told : m.to = n.to /\ m.key = n.key => m = n

(* An event makes one notification for each user. *)
LEMMA OneEach ==
    \A e : \A m, n \in Notices(e) : m.to = n.to => m = n
BY DEF Notices

LEMMA KeysStayUnique ==
    ASSUME TypeOK, KeysAreUnique, [Next]_vars
    PROVE  KeysAreUnique'
<1>1. CASE UNCHANGED vars
  BY <1>1 DEF KeysAreUnique, vars, notify
<1>2. ASSUME NEW e \in bus, Record(e) \/ eraseUser(e) PROVE KeysAreUnique'
  BY <1>2 DEF KeysAreUnique, Record, eraseUser, notify
<1>3. ASSUME NEW e \in bus, Tell(e) PROVE KeysAreUnique'
  <2>1. told' = told \cup {n \in Notices(e) : IsNew(n)}
    BY <1>3 DEF Tell
  <2> SUFFICES ASSUME NEW m \in told', NEW n \in told', m.to = n.to, m.key = n.key
               PROVE  m = n
    BY DEF KeysAreUnique
  <2>2. CASE m \in told /\ n \in told
    BY <2>2 DEF KeysAreUnique
  <2>3. CASE m \in Notices(e) /\ n \in Notices(e)
    BY <2>3, OneEach
  <2> QED
    BY <2>1, <2>2, <2>3 DEF IsNew
<1>4. ASSUME NEW e \in bus, EraseNotices(e) PROVE KeysAreUnique'
  BY <1>4 DEF KeysAreUnique, EraseNotices
<1> QED
  BY <1>1, <1>2, <1>3, <1>4 DEF Next

(* One fact is told once: its events all have the one key, and a key has one row for each user. *)
THEOREM OneFactTellsOnce == Spec => []OneFactOneNotice
<1>1. Init => KeysAreUnique
  BY DEF Init, KeysAreUnique
<1>2. TypeOK /\ KeysAreUnique /\ [Next]_vars => KeysAreUnique'
  BY KeysStayUnique
<1>3. TypeOK /\ KeysAreUnique => OneFactOneNotice
  <2> SUFFICES ASSUME TypeOK, KeysAreUnique,
                      NEW m \in told, NEW n \in told, m.to = n.to, SameNews(m.event, n.event),
                      HasOneKey(m.event), HasOneKey(n.event)
               PROVE  m = n
    BY DEF OneFactOneNotice
  <2>1. /\ m \in Notices(m.event) /\ n \in Notices(n.event) /\ m.to \in Users
        /\ WellFormed(m.event) /\ WellFormed(n.event)
    BY DEF TypeOK
  <2>2. m.key = n.key
    BY <2>1, FactsHaveOneKey
  <2> QED
    BY <2>2 DEF KeysAreUnique
<1> QED
  BY <1>1, <1>2, <1>3, TypeCorrect, PTL DEF Spec

-----------------------------------------------------------------------------
(* Of every event that was heard, each notification has a row of its key, or its user was erased. *)
KeyIsTold ==
    \A e \in heard : \A n \in Notices(e) :
        n.to \in erasedN \/ \E m \in told : m.to = n.to /\ m.key = n.key

LEMMA KeysStayTold ==
    ASSUME TypeOK, KeyIsTold, [Next]_vars
    PROVE  KeyIsTold'
<1>1. CASE UNCHANGED vars
  BY <1>1 DEF KeyIsTold, vars, notify
<1>2. ASSUME NEW e \in bus, Record(e) \/ eraseUser(e) PROVE KeyIsTold'
  BY <1>2 DEF KeyIsTold, Record, eraseUser, notify
<1>3. ASSUME NEW e \in bus, Tell(e) PROVE KeyIsTold'
  <2>1. /\ told' = told \cup {n \in Notices(e) : IsNew(n)}
        /\ heard' = heard \cup {e} /\ erasedN' = erasedN
    BY <1>3 DEF Tell
  <2> SUFFICES ASSUME NEW d \in heard', NEW n \in Notices(d), n.to \notin erasedN'
               PROVE  \E m \in told' : m.to = n.to /\ m.key = n.key
    BY DEF KeyIsTold
  <2>2. CASE d \in heard
    BY <2>1, <2>2 DEF KeyIsTold
  <2>3. CASE d = e
    BY <2>1, <2>3 DEF IsNew
  <2> QED
    BY <2>1, <2>2, <2>3
<1>4. ASSUME NEW e \in bus, EraseNotices(e) PROVE KeyIsTold'
  <2>1. /\ told' = {n \in told : n.to # erasedUser(e)}
        /\ heard' = heard \cup {e} /\ erasedN' = erasedN \cup {erasedUser(e)}
        /\ e.topic \in ERASURE_TOPICS
    BY <1>4 DEF EraseNotices
  <2>2. Notices(e) = {}
    BY <2>1, ErasureTellsNobody
  <2> QED
    BY <2>1, <2>2 DEF KeyIsTold
<1> QED
  BY <1>1, <1>2, <1>3, <1>4 DEF Next

(* No notification swallows another fact: the row that holds the key is of the same fact. *)
THEOREM FactsAreToldApart == Spec => []DistinctFactsAreTold
<1>1. Init => KeyIsTold
  BY DEF Init, KeyIsTold
<1>2. TypeOK /\ KeyIsTold /\ [Next]_vars => KeyIsTold'
  BY KeysStayTold
<1>3. TypeOK /\ bus \in Stories /\ KeyIsTold => DistinctFactsAreTold
  <2> SUFFICES ASSUME TypeOK, bus \in Stories, KeyIsTold,
                      NEW e \in heard, NEW n \in Notices(e), Identified(e), n.to \notin erasedN
               PROVE  ToldOf(e, n.to)
    BY DEF DistinctFactsAreTold
  <2>1. PICK m \in told : m.to = n.to /\ m.key = n.key
    BY DEF KeyIsTold
  <2>2. m \in Notices(m.event) /\ m.to \in Users /\ m.event \in bus /\ e \in bus
    BY DEF TypeOK
  <2>3. SameNews(m.event, e)
    BY <2>1, <2>2, Published, KeysTellFactsApart
  <2> QED
    BY <2>1, <2>3 DEF ToldOf
<1> QED
  BY <1>1, <1>2, <1>3, TypeCorrect, OneStory, PTL DEF Spec

=============================================================================
