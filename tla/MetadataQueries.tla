-------------------------- MODULE MetadataQueries --------------------------
(***************************************************************************)
(* What a client reads out of a metadata store: the queries of             *)
(* metadata.Store and the read-only handlers and commands that answer with *)
(* them.  Each takes the store's mutex for reading, so it sees the store   *)
(* between two appends; none changes it.                                   *)
(*                                                                         *)
(* The indexes leave nothing in a map but what an entry put there: a key   *)
(* is in the code's map when its value here is not the empty one.  A label *)
(* is told from another by the path that its slashes cut it into.          *)
(***************************************************************************)
EXTENDS MetadataStore

CONSTANTS
  Spellings,  \* tags as clients write them
  ToLower,    \* strings.ToLower of each
  PathOf,     \* the parts of a label between its slashes
  Nobody      \* the principal of a bearer capability, ""

ASSUME ToLowerAssumption == ToLower \in [Spellings -> Tags]
ASSUME PathOfAssumption ==
  /\ PathOf \in [Labels -> Seq(STRING) \ {<<>>}]
  /\ \A l, m \in Labels : PathOf[l] = PathOf[m] => l = m

-----------------------------------------------------------------------------
(* Store.Query, one operator per index.                                    *)

QueryTag(spelling) == tagIndex[ToLower[spelling]]

QueryDate(day) == dateIndex[day]

QueryName(l) == {nameIndex[l]} \ {NoHash}

\* RelationIndex.Query: the relation objects, in the order they were recorded,
\* under one of the three kinds of key.
HashesOf(relations) == [k \in DOMAIN relations |-> relations[k].hash]

QueryRelation(key, value) == HashesOf(relationIndex[key][value])

QueryCapability(principal) ==
  LET caps == capabilityIndex.byPrincipal[principal] IN [k \in DOMAIN caps |-> caps[k].id]

-----------------------------------------------------------------------------
(* The rich queries.                                                       *)

\* TagsForHash reads the log, not the tag index: the last stash of the object,
\* whether or not its entry could be saved.
TagsForHash(h) ==
  UNION {log[i].tags : i \in {i \in 1..Len(log) :
    /\ log[i].op = "stash" /\ log[i].hash = h
    /\ \A j \in (i + 1)..Len(log) : ~(log[j].op = "stash" /\ log[j].hash = h)}}

\* The list handler and "hatcheck list": every object with its tags.
List(objects) == [h \in objects |-> TagsForHash(h)]

AllTags == {t \in Tags : tagIndex[t] # {}}

RelationsForHash(h) == [outgoing |-> relationIndex.from[h], incoming |-> relationIndex.to[h]]

Named == {l \in Labels : nameIndex[l] # NoHash}

\* A label without a slash is its own namespace.
Namespaces == {Head(PathOf[l]) : l \in Named}

Under(l, namespace) ==
  /\ Len(PathOf[l]) > Len(namespace)
  /\ SubSeq(PathOf[l], 1, Len(namespace)) = namespace

NamesInNamespace(namespace) ==
  {[label |-> SubSeq(PathOf[l], Len(namespace) + 1, Len(PathOf[l])), hash |-> nameIndex[l]] :
     l \in {l \in Named : Under(l, namespace)}}

CapabilitiesForPrincipal(p) == capabilityIndex.byPrincipal[p]

AllCapabilities == capabilityIndex.all

CapabilityByID(i) == capabilityIndex.byID[i]

\* The closest thing to a directory of users.
KnownPrincipals == {p \in Principals \ {Nobody} : capabilityIndex.byPrincipal[p] # <<>>}

-----------------------------------------------------------------------------
(* Properties: what a walk over the log would answer, entry by entry, over *)
(* the entries whose append succeeded or that were loaded.                 *)

StashedAt == {i \in indexed : log[i].op = "stash"}
RelatedAt == {i \in indexed : log[i].op = "relation"}
IssuedAt  == {i \in indexed : log[i].op = "capability"}

\* s is what f says of the positions f is defined on, in their order.
InOrder(s, f) ==
  \E at \in [1..Len(s) -> DOMAIN f] :
    /\ \A j, k \in 1..Len(s) : j < k => at[j] < at[k]
    /\ \A i \in DOMAIN f : \E k \in 1..Len(s) : at[k] = i
    /\ \A k \in 1..Len(s) : s[k] = f[at[k]]

TagQueriesAnswerLog ==
  /\ \A s \in Spellings :
       QueryTag(s) = {log[i].hash : i \in {i \in StashedAt : ToLower[s] \in log[i].tags}}
  /\ \A d \in Days : QueryDate(d) = {log[i].hash : i \in {i \in StashedAt : log[i].day = d}}
  /\ AllTags = UNION {log[i].tags : i \in StashedAt}

\* Searching by tag and listing the tags of an object agree about every object
\* that was stashed with success.
TagViewsAgree ==
  \A i \in StashedAt, s \in Spellings :
    log[i].hash \in QueryTag(s) <=> ToLower[s] \in List(Hashes)[log[i].hash]

RelationQueriesAnswerLog ==
  /\ \A h \in Hashes :
       /\ InOrder(RelationsForHash(h).outgoing,
                  [i \in {i \in RelatedAt : log[i].from = h} |-> log[i]])
       /\ InOrder(RelationsForHash(h).incoming,
                  [i \in {i \in RelatedAt : log[i].to = h} |-> log[i]])
  /\ \A r \in Rels :
       InOrder(QueryRelation("rel", r), [i \in {i \in RelatedAt : log[i].rel = r} |-> log[i].hash])

\* What those who open the namespaces one after the other come across.
Found ==
  UNION {{[namespace |-> n, entry |-> e] : e \in NamesInNamespace(<<n>>)} : n \in Namespaces}

PathTo(b) == <<b.namespace>> \o b.entry.label

\* They find each name once and with the hash its label answers with.
NamesAreBrowsable ==
  /\ \A b \in Found : \E l \in Named : PathOf[l] = PathTo(b) /\ QueryName(l) = {b.entry.hash}
  /\ \A b, c \in Found : PathTo(b) = PathTo(c) => b = c
  /\ \A l \in Named : Len(PathOf[l]) > 1 => \E b \in Found : PathTo(b) = PathOf[l]

CapabilityQueriesAnswerLog ==
  /\ InOrder(AllCapabilities, [i \in IssuedAt |-> log[i].cap])
  /\ \A p \in Principals :
       LET grants == {i \in IssuedAt : log[i].cap.principal = p}
       IN /\ InOrder(CapabilitiesForPrincipal(p), [i \in grants |-> log[i].cap])
          /\ InOrder(QueryCapability(p), [i \in grants |-> log[i].cap.id])
  /\ \A id \in Ids :
       LET grants == {i \in IssuedAt : log[i].cap.id = id}
       IN \/ grants = {} /\ CapabilityByID(id) = NoCapability
          \/ \E i \in grants : (\A j \in grants : j <= i) /\ CapabilityByID(id) = log[i].cap
  /\ KnownPrincipals = {log[i].cap.principal : i \in IssuedAt} \ {Nobody}

\* Whenever the store can be read, every query answers what a walk over the log
\* would: the append path and the replay path agree on all five indexes, and the
\* two views of tags and of names agree with each other.
QueriesAnswerLog ==
  phase = "ready" =>
    /\ TagQueriesAnswerLog
    /\ TagViewsAgree
    /\ RelationQueriesAnswerLog
    /\ NamesAreBrowsable
    /\ CapabilityQueriesAnswerLog
=============================================================================
