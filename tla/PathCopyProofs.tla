--------------------------- MODULE PathCopyProofs ---------------------------
(***************************************************************************)
(* Proofs about PathCopy, for any trees, names and namespaces, any number  *)
(* of saves that overlap and of requests in flight, and users who click as *)
(* often as they like.                                                     *)
(***************************************************************************)
EXTENDS PathCopy, SequenceTheorems, TLAPS

\* A JSON null is no object.
NullIsNoObject == \A t, m : [text |-> t, members |-> m] # NoObject

Words  == Texts \cup {Blank} \cup {o.text : o \in Stored}
Pieces == [text : Words, members : Seq(Objects)]
Frames == [object : Stored \ {NoObject}, label : Labels \cup {Crumb, NoObject},
           members : Seq(Objects) \cup {NoMembers}, index : Nat]
Points == {"idle", "stash", "collection", "name", "new name", "new list", "list"}
Calls  == [pc : Points, content : Words, object : Pieces \cup {NoObject}, at : Nat,
           label : Labels \cup {NoObject}, space : Spaces, token : Stored \cup {NoCapability},
           start : Seq(Frames), from : Spaces, steady : BOOLEAN]

\* What TypeOK leaves open: the types of the frames and of the calls, that every
\* collection the server has is made of what it has, and that it is asked to give
\* labels to objects that it has.
TypeInv ==
  /\ TypeOK
  /\ path \in Seq(Frames)
  /\ panel \in Seq(Objects)
  /\ NoObject \notin fetches
  /\ save \in [Saves -> Calls]
  /\ \A s \in Saves : save[s].pc \in {"stash", "collection", "name", "new name"}
       => save[s].object \in Pieces
  /\ \A s \in Saves : save[s].pc \in {"name", "new name"}
       => save[s].object \in caps /\ save[s].label \in Labels
  /\ \A o \in Stored \ {NoObject} : o.members \in Seq(Objects)

\* While a save is steady the tab is as it was when the save was pressed, and no
\* request but its own is under way.
SteadyCall(s) ==
  LET c == save[s] IN
  /\ c.pc # "idle"
  /\ fetches = {}
  /\ path = c.start
  /\ namespace = c.from
  /\ \A r \in Saves : r # s => save[r].pc = "idle"
  /\ c.pc = "stash" => c.object = Text(c.content)
  /\ c.pc = "collection" => active = Text(c.content)
  /\ c.pc \in {"name", "new name"} => c.token = Text(c.content) /\ c.space = c.from
  /\ c.pc \in {"new list", "list"} => names[c.from][c.label] = Text(c.content)
  /\ c.pc \in {"name", "new name", "new list", "list"} /\ c.start # <<>> => c.label = c.start[1].label

SteadyInv == \A s \in Saves : save[s].steady => SteadyCall(s)

\* What the tab shows of a namespace, for a user who is patient.
NamedIn(n, l) == names[n][l] # NoObject

PatientInv ==
  patient =>
    /\ lists \subseteq {namespace}
    /\ \A s \in Saves : save[s].pc \in {"new list", "list"} => save[s].space = namespace
    /\ lists = {} => \A l \in Labels : nameList[l] # NoObject => NamedIn(namespace, l)
    /\ path # <<>> /\ path[1].label \in Labels \ {Crumb} => NamedIn(namespace, path[1].label)
    /\ \A s \in Saves : save[s].pc = "name" /\ save[s].label # Crumb
         => NamedIn(save[s].space, save[s].label)
-----------------------------------------------------------------------------
(* The sets of the type invariant.                                         *)

\* Objects are never deleted, so that what has been well typed stays so.
LEMMA MoreIsStored ==
  ASSUME caps \subseteq caps'
  PROVE  /\ Stored \subseteq Stored' /\ Objects \subseteq Objects' /\ Words \subseteq Words'
         /\ Seq(Objects) \subseteq Seq(Objects)'
         /\ Pieces \subseteq Pieces' /\ Frames \subseteq Frames'
         /\ Seq(Frames) \subseteq Seq(Frames)' /\ Calls \subseteq Calls'
<1>1. Stored \subseteq Stored' /\ Objects \subseteq Objects'
  BY DEF Stored, Objects
<1>2. Words \subseteq Words'
  BY <1>1 DEF Words
<1>3. Seq(Objects) \subseteq Seq(Objects)'
  BY <1>1, SeqMonotonic
<1>4. Pieces \subseteq Pieces'
  BY <1>2, <1>3 DEF Pieces
<1>5. Frames \subseteq Frames'
  BY <1>1, <1>3 DEF Frames
<1>6. Seq(Frames) \subseteq Seq(Frames)'
  BY <1>5, SeqMonotonic
<1>7. Calls \subseteq Calls'
  BY <1>1, <1>2, <1>4, <1>6 DEF Calls
<1>8. QED
  BY <1>1, <1>2, <1>3, <1>4, <1>5, <1>6, <1>7

LEMMA EmptyIsSeq == \A S : <<>> \in Seq(S) /\ Len(<<>>) = 0 /\ ToSet(<<>>) = {}
BY DEF ToSet

LEMMA SameIsStored ==
  ASSUME caps' = caps
  PROVE  /\ Stored' = Stored /\ Objects' = Objects /\ Words' = Words
         /\ Pieces' = Pieces /\ Frames' = Frames /\ Calls' = Calls
<1>1. Stored' = Stored /\ Objects' = Objects
  BY DEF Stored, Objects
<1>2. Words' = Words
  BY <1>1 DEF Words
<1>3. Pieces' = Pieces /\ Frames' = Frames
  BY <1>1, <1>2 DEF Pieces, Frames
<1>4. QED
  BY <1>1, <1>2, <1>3 DEF Calls

LEMMA IdleIsCall ==
  /\ Idle \in Calls /\ Idle.pc = "idle" /\ Idle.steady = FALSE
<1>1. /\ Blank \in Words /\ 0 \in Nat /\ <<>> \in Seq(Frames) /\ Home \in Spaces
  BY SpacesAssumption DEF Words
<1>2. QED
  BY <1>1 DEF Idle, Calls, Points

\* Two calls that differ in nothing but whether they are steady.
Alike(c, d) ==
  /\ c.pc = d.pc /\ c.content = d.content /\ c.object = d.object /\ c.at = d.at
  /\ c.label = d.label /\ c.space = d.space /\ c.token = d.token
  /\ c.start = d.start /\ c.from = d.from

LEMMA DisturbedCalls ==
  ASSUME NEW f \in [Saves -> Calls]
  PROVE  /\ Disturb(f) \in [Saves -> Calls]
         /\ \A s \in Saves : Alike(Disturb(f)[s], f[s]) /\ Disturb(f)[s].steady = FALSE
<1>1. ASSUME NEW c \in Calls
      PROVE  [c EXCEPT !.steady = FALSE] \in Calls
  BY DEF Calls
<1>2. ASSUME NEW c \in Calls
      PROVE  Alike([c EXCEPT !.steady = FALSE], c) /\ [c EXCEPT !.steady = FALSE].steady = FALSE
  BY DEF Calls, Alike
<1>3. ASSUME NEW s \in Saves
      PROVE  Alike(Disturb(f)[s], f[s]) /\ Disturb(f)[s].steady = FALSE
  <2>1. Disturb(f)[s] = [f[s] EXCEPT !.steady = FALSE] /\ f[s] \in Calls
    BY DEF Disturb
  <2>2. QED
    BY <1>2, <2>1
<1>4. Disturb(f) \in [Saves -> Calls]
  BY <1>1 DEF Disturb
<1>5. QED
  BY <1>3, <1>4

\* What the tab does with a call: it goes on as d, or the others see that it does.
Continues(s, d) ==
  \/ save' = [save EXCEPT ![s] = d]
  \/ save' = [Disturb(save) EXCEPT ![s] = d]

LEMMA ContinuesFacts ==
  ASSUME save \in [Saves -> Calls], NEW s \in Saves, NEW d, Continues(s, d)
  PROVE  /\ save'[s] = d
         /\ \A r \in Saves \ {s} :
              /\ save'[r] \in Calls /\ Alike(save'[r], save[r])
              /\ save'[r].steady = save[r].steady \/ save'[r].steady = FALSE
         /\ save' \in [Saves -> Calls \cup {d}]
<1>1. CASE save' = [save EXCEPT ![s] = d]
  BY <1>1 DEF Alike
<1>2. CASE save' = [Disturb(save) EXCEPT ![s] = d]
  <2>1. PICK g \in [Saves -> Calls] : g = Disturb(save)
    BY DisturbedCalls
  <2>2. save' = [g EXCEPT ![s] = d]
    BY <1>2, <2>1
  <2>3. \A r \in Saves \ {s} : save'[r] = g[r] /\ g[r] \in Calls
    BY <2>2
  <2>4. save'[s] = d /\ save' \in [Saves -> Calls \cup {d}]
    BY <2>2
  <2>5. \A r \in Saves : Alike(g[r], save[r]) /\ g[r].steady = FALSE
    BY <2>1, DisturbedCalls
  <2>6. QED
    BY <2>3, <2>4, <2>5
<1>3. QED
  BY <1>1, <1>2 DEF Continues

\* A step that changes only what the tab shows.
LEMMA ViewKeepsTypes ==
  ASSUME TypeInv, UNCHANGED serverVars, save' \in {save, Disturb(save)},
         active' \in caps \cup {NoCapability},
         path' \in Seq(Frames), Len(path') <= MaxDepth, panel' \in Seq(Objects),
         nameList' \in [Labels -> Objects], editor' \in Words, enabled' \in BOOLEAN,
         fetches' \subseteq Stored \ {NoObject},
         namespace' \in Spaces, lists' \subseteq Spaces, patient' \in BOOLEAN,
         inputs' \in 0..MaxInputs
  PROVE  TypeInv'
<1>0. names' = names /\ caps' = caps /\ save \in [Saves -> Calls]
  BY DEF serverVars, TypeInv
<1>1. /\ Stored' = Stored /\ Objects' = Objects /\ Words' = Words
      /\ Pieces' = Pieces /\ Frames' = Frames /\ Calls' = Calls
  BY <1>0, SameIsStored
<1>2. /\ save' \in [Saves -> Calls]
      /\ \A s \in Saves : /\ save'[s].pc = save[s].pc /\ save'[s].object = save[s].object
                           /\ save'[s].label = save[s].label
  <2>1. CASE save' = save
    BY <1>0, <2>1
  <2>2. CASE save' = Disturb(save)
    <3>1. PICK g \in [Saves -> Calls] :
            g = Disturb(save) /\ \A s \in Saves : Alike(g[s], save[s])
      BY <1>0, DisturbedCalls
    <3>2. QED
      BY <2>2, <3>1 DEF Alike
  <2>3. QED
    BY <2>1, <2>2
<1>3. \A i \in DOMAIN path' :
        /\ path'[i].object \in Stored
        /\ path'[i].members # NoMembers => ToSet(path'[i].members) \subseteq Objects
  <2>1. SUFFICES ASSUME NEW i \in DOMAIN path'
                 PROVE  /\ path'[i].object \in Stored
                        /\ path'[i].members # NoMembers => ToSet(path'[i].members) \subseteq Objects
    OBVIOUS
  <2>2. path'[i] \in Frames
    BY <2>1, ElementOfSeq, LenProperties
  <2>3. \A m \in Seq(Objects) : ToSet(m) \subseteq Objects
    BY ElementOfSeq, LenProperties DEF ToSet
  <2>4. QED
    BY <2>2, <2>3 DEF Frames
<1>4. ToSet(panel') \subseteq Objects
  BY ElementOfSeq, LenProperties DEF ToSet
<1>5. TypeOK'
  <2>1. \A s \in Saves : save'[s].pc \in Points
    BY <1>2 DEF Calls
  <2>2. editor' \in Texts \cup {Blank} \cup {o.text : o \in Stored}
    BY DEF Words
  <2>3. names' \in [Spaces -> [Labels -> Objects]]
    BY <1>0 DEF TypeInv, TypeOK
  <2>4. QED
    BY <1>0, <1>1, <1>3, <1>4, <2>1, <2>2, <2>3 DEF TypeOK, Points
<1>6. QED
  BY <1>0, <1>1, <1>2, <1>5 DEF TypeInv

\* A step of a call: it goes on as d, and may have stored its object.
LEMMA CallKeepsTypes ==
  ASSUME TypeInv, NEW s \in Saves, NEW d, Continues(s, d), d \in Calls',
         caps' = caps \/ (caps' = caps \cup {save[s].object} /\ save[s].object \in Pieces),
         d.pc \in {"stash", "collection", "name", "new name"} => d.object \in Pieces',
         d.pc \in {"name", "new name"} => d.object \in caps' /\ d.label \in Labels,
         names' \in [Spaces -> [Labels -> Objects]],
         active' \in caps' \cup {NoCapability}, path' = path,
         panel' \in {panel, <<>>}, nameList' \in [Labels -> Objects],
         editor' \in Words, enabled' \in BOOLEAN,
         UNCHANGED <<spaceVars, fetches>>, inputs' \in 0..MaxInputs
  PROVE  TypeInv'
<1>0. /\ save \in [Saves -> Calls] /\ caps \subseteq caps'
      /\ namespace' = namespace /\ lists' = lists /\ patient' = patient /\ fetches' = fetches
  BY DEF TypeInv, spaceVars
<1>1. /\ Stored \subseteq Stored' /\ Objects \subseteq Objects' /\ Words \subseteq Words'
      /\ Seq(Objects) \subseteq Seq(Objects)'
      /\ Pieces \subseteq Pieces' /\ Frames \subseteq Frames'
      /\ Seq(Frames) \subseteq Seq(Frames)' /\ Calls \subseteq Calls'
  BY <1>0, MoreIsStored
<1>2. /\ save'[s] = d
      /\ \A r \in Saves \ {s} :
           save'[r] \in Calls /\ save'[r].pc = save[r].pc /\ save'[r].object = save[r].object
           /\ save'[r].label = save[r].label
      /\ save' \in [Saves -> Calls \cup {d}]
  <2>1. /\ save'[s] = d /\ save' \in [Saves -> Calls \cup {d}]
        /\ \A r \in Saves \ {s} : save'[r] \in Calls /\ Alike(save'[r], save[r])
    BY <1>0, ContinuesFacts
  <2>2. QED
    BY <2>1 DEF Alike
<1>3. save' \in [Saves -> Calls']
  BY <1>1, <1>2
<1>4. \A r \in Saves : save'[r].pc \in {"stash", "collection", "name", "new name"}
        => save'[r].object \in Pieces'
  BY <1>1, <1>2 DEF TypeInv
<1>5. \A r \in Saves : save'[r].pc \in {"name", "new name"}
        => save'[r].object \in caps' /\ save'[r].label \in Labels
  BY <1>0, <1>2 DEF TypeInv
<1>6. \A o \in Stored' \ {NoObject} : o.members \in Seq(Objects)'
  <2>1. Stored' = Stored \/ (Stored' = Stored \cup {save[s].object} /\ save[s].object \in Pieces)
    BY DEF Stored
  <2>2. \A o \in Stored \ {NoObject} : o.members \in Seq(Objects)
    BY DEF TypeInv
  <2>3. \A o \in Pieces : o.members \in Seq(Objects)
    BY DEF Pieces
  <2>4. QED
    BY <1>1, <2>1, <2>2, <2>3
<1>7. path' \in Seq(Frames)' /\ panel' \in Seq(Objects)'
  <2>1. <<>> \in Seq(Objects)
    BY EmptyIsSeq
  <2>2. path \in Seq(Frames) /\ panel \in Seq(Objects)
    BY DEF TypeInv
  <2>3. QED
    BY <1>1, <2>1, <2>2
<1>8. TypeOK'
  <2>1. \A r \in Saves : save'[r].pc \in Points
    BY <1>3 DEF Calls
  <2>2. editor' \in Words'
    BY <1>1
  <2>3. \A i \in DOMAIN path' :
          /\ path'[i].object \in Stored'
          /\ path'[i].members # NoMembers => ToSet(path'[i].members) \subseteq Objects'
    BY <1>1 DEF TypeInv, TypeOK
  <2>4. ToSet(panel') \subseteq Objects'
    <3>1. ToSet(panel) \subseteq Objects /\ ToSet(<<>>) = {}
      BY EmptyIsSeq DEF TypeInv, TypeOK
    <3>2. QED
      BY <1>1, <3>1
  <2>5. /\ names' \in [Spaces -> [Labels -> Objects']] /\ nameList' \in [Labels -> Objects']
    BY <1>1
  <2>6. fetches' \subseteq Stored' /\ Len(path') <= MaxDepth
    BY <1>0, <1>1 DEF TypeInv, TypeOK
  <2>7. QED
    BY <1>0, <2>1, <2>2, <2>3, <2>4, <2>5, <2>6 DEF TypeInv, TypeOK, Points, Words
<1>9. QED
  BY <1>0, <1>3, <1>4, <1>5, <1>6, <1>7, <1>8 DEF TypeInv

LEMMA InitTypes == Init => TypeInv
<1> SUFFICES ASSUME Init
             PROVE  TypeInv
  OBVIOUS
<1>1. /\ Stored = InitialObjects /\ Objects = InitialObjects \cup {NoObject}
      /\ InitialNames \in [Spaces -> [Labels -> Objects]] /\ InitialNames[Home] \in [Labels -> Objects]
  BY TreesAssumption, SpacesAssumption DEF Init, Stored, Objects
<1>2. /\ <<>> \in Seq(Frames) /\ <<>> \in Seq(Objects) /\ DOMAIN <<>> = {} /\ Len(<<>>) = 0
      /\ ToSet(<<>>) = {} /\ 0 \in 0..MaxInputs /\ 0 <= MaxDepth
  BY BoundsAssumption DEF ToSet
<1>3. save \in [Saves -> Calls] /\ \A s \in Saves : save[s].pc = "idle"
  BY IdleIsCall DEF Init
<1>4. TypeOK
  BY <1>1, <1>2, <1>3, SpacesAssumption DEF Init, TypeOK
<1>5. \A o \in Stored \ {NoObject} : o.members \in Seq(Objects)
  BY <1>1, TreesAssumption
<1>6. QED
  BY <1>2, <1>3, <1>4, <1>5 DEF Init, TypeInv

-----------------------------------------------------------------------------
(* Navigation keeps the types.                                             *)

\* What the invariant says of what the tab shows.
LEMMA ViewTypes ==
  ASSUME TypeInv
  PROVE  /\ panel \in Seq(Objects) /\ nameList \in [Labels -> Objects] /\ editor \in Words
         /\ enabled \in BOOLEAN /\ namespace \in Spaces /\ lists \subseteq Spaces
         /\ fetches \subseteq Stored \ {NoObject} /\ patient \in BOOLEAN /\ inputs \in 0..MaxInputs
         /\ active \in caps \cup {NoCapability} /\ path \in Seq(Frames) /\ Len(path) <= MaxDepth
         /\ names \in [Spaces -> [Labels -> Objects]]
         /\ <<>> \in Seq(Frames) /\ <<>> \in Seq(Objects) /\ Len(<<>>) <= MaxDepth
<1>1. Len(<<>>) <= MaxDepth
  BY EmptyIsSeq, BoundsAssumption
<1>2. editor \in Words
  BY DEF TypeInv, TypeOK, Words
<1>3. QED
  BY <1>1, <1>2, EmptyIsSeq DEF TypeInv, TypeOK

LEMMA InputTypes ==
  ASSUME inputs \in 0..MaxInputs, Input
  PROVE  inputs' \in 0..MaxInputs
BY BoundsAssumption DEF Input

LEMMA OpenTypes ==
  ASSUME TypeInv, NEW o \in Stored \ {NoObject}, NEW l \in Labels \cup {Crumb}, Open(o, l)
  PROVE  TypeInv'
<1>1. PICK f : f = Frame(o, l)
  OBVIOUS
<1>2. f \in Frames
  BY <1>1 DEF Frame, Frames
<1>3. path' = <<f>> /\ path' \in Seq(Frames) /\ Len(path') = 1
  BY <1>1, <1>2 DEF Open
<1>4. patient' \in BOOLEAN
  <2>1. patient' = (patient /\ ~Waiting)
    BY DEF Open
  <2>2. QED
    BY <2>1, Zenon
<1>5. /\ fetches' = fetches \cup {o} /\ active' \in caps \cup {NoCapability}
      /\ save' = Disturb(save) /\ UNCHANGED serverVars
  BY DEF Open, Descend
<1>6. inputs' \in 0..MaxInputs
  BY ViewTypes, InputTypes DEF Open
<1>7. /\ panel' \in Seq(Objects) /\ nameList' \in [Labels -> Objects] /\ editor' \in Words
      /\ enabled' \in BOOLEAN /\ namespace' \in Spaces /\ lists' \subseteq Spaces
      /\ fetches' \subseteq Stored \ {NoObject}
  BY <1>5, ViewTypes DEF Open, viewVars
<1>8. 1 <= MaxDepth
  BY BoundsAssumption
<1>9. QED
  BY <1>3, <1>4, <1>5, <1>6, <1>7, <1>8, ViewKeepsTypes

LEMMA NavigateTypes ==
  ASSUME TypeInv, Navigate
  PROVE  TypeInv'
<1>0. /\ panel \in Seq(Objects) /\ nameList \in [Labels -> Objects] /\ editor \in Words
      /\ enabled \in BOOLEAN /\ namespace \in Spaces /\ lists \subseteq Spaces
      /\ fetches \subseteq Stored \ {NoObject} /\ patient \in BOOLEAN /\ inputs \in 0..MaxInputs
      /\ active \in caps \cup {NoCapability} /\ path \in Seq(Frames) /\ Len(path) <= MaxDepth
      /\ names \in [Spaces -> [Labels -> Objects]]
      /\ <<>> \in Seq(Frames) /\ <<>> \in Seq(Objects) /\ Len(<<>>) <= MaxDepth
  BY ViewTypes
<1>1. ASSUME NEW l \in Labels, SelectName(l)
      PROVE  TypeInv'
  <2>1. nameList[l] \in Stored \ {NoObject}
    BY <1>0, <1>1 DEF SelectName, Objects
  <2>2. QED
    BY <1>1, <2>1, OpenTypes DEF SelectName
<1>2. ASSUME NEW o \in Linked, NavigateToHash(o)
      PROVE  TypeInv'
  <2>1. o \in Stored \ {NoObject}
    BY TreesAssumption DEF Stored
  <2>2. \E l \in Labels \cup {Crumb} : Open(o, l)
    BY <1>2 DEF NavigateToHash
  <2>3. QED
    BY <2>1, <2>2, OpenTypes
<1>3. ASSUME NEW n \in Spaces, LoadNamespace(n)
      PROVE  TypeInv'
  <2>1. patient' \in BOOLEAN
    <3>1. patient' = (patient /\ ~Waiting)
      BY <1>3 DEF LoadNamespace
    <3>2. QED
      BY <3>1, Zenon
  <2>2. inputs' \in 0..MaxInputs
    BY <1>0, <1>3, InputTypes DEF LoadNamespace
  <2>3. /\ path' = <<>> /\ namespace' = n /\ lists' = lists \cup {n} /\ editor' = Blank /\ enabled' = FALSE
        /\ save' = Disturb(save) /\ UNCHANGED serverVars
        /\ active' = active /\ panel' = panel /\ nameList' = nameList /\ fetches' = fetches
    BY <1>3 DEF LoadNamespace
  <2>4. editor' \in Words /\ enabled' \in BOOLEAN /\ lists' \subseteq Spaces /\ namespace' \in Spaces
    BY <1>0, <2>3 DEF Words
  <2>5. QED
    BY <1>0, <2>1, <2>2, <2>3, <2>4, ViewKeepsTypes
<1>4. ASSUME NEW n \in Spaces, NamesLoaded(n)
      PROVE  TypeInv'
  <2>1. /\ lists' \subseteq Spaces /\ nameList' \in [Labels -> Objects] /\ panel' = <<>>
        /\ save' = save /\ UNCHANGED serverVars
        /\ active' = active /\ path' = path /\ editor' = editor /\ enabled' = enabled
        /\ namespace' = namespace /\ patient' = patient /\ fetches' = fetches /\ inputs' = inputs
    BY <1>0, <1>4 DEF NamesLoaded
  <2>2. QED
    BY <1>0, <2>1, ViewKeepsTypes
<1>5. ASSUME NEW n \in Spaces, NamesFail(n)
      PROVE  TypeInv'
  <2>1. /\ lists' \subseteq Spaces /\ patient' \in BOOLEAN
        /\ save' = save /\ UNCHANGED serverVars
        /\ active' = active /\ path' = path /\ editor' = editor /\ enabled' = enabled /\ panel' = panel
        /\ nameList' = nameList /\ namespace' = namespace /\ fetches' = fetches /\ inputs' = inputs
    BY <1>0, <1>5 DEF NamesFail, viewVars
  <2>2. QED
    BY <1>0, <2>1, ViewKeepsTypes
<1>6. QED
  BY <1>1, <1>2, <1>3, <1>4, <1>5 DEF Navigate

\* A click that makes the tab fetch an object it has in front of it.
LEMMA DescendTypes ==
  ASSUME TypeInv, NEW o \in Stored \ {NoObject}, Descend(o), Input,
         path' \in Seq(Frames), Len(path') <= MaxDepth, UNCHANGED <<viewVars, spaceVars>>
  PROVE  TypeInv'
<1>1. /\ fetches' = fetches \cup {o} /\ active' \in caps \cup {NoCapability}
      /\ save' = Disturb(save) /\ UNCHANGED serverVars
  BY DEF Descend
<1>2. /\ panel' = panel /\ nameList' = nameList /\ editor' = editor /\ enabled' = enabled
      /\ namespace' = namespace /\ lists' = lists /\ patient' = patient
  BY DEF viewVars, spaceVars
<1>3. fetches' \subseteq Stored \ {NoObject} /\ inputs' \in 0..MaxInputs
  BY <1>1, ViewTypes, InputTypes
<1>4. QED
  BY <1>1, <1>2, <1>3, ViewTypes, ViewKeepsTypes

LEMMA SelectMemberTypes ==
  ASSUME TypeInv, NEW i \in DOMAIN panel, SelectMember(i), UNCHANGED spaceVars
  PROVE  TypeInv'
<1>1. panel[i] \in Stored \ {NoObject}
  <2>1. panel[i] \in Objects
    BY ViewTypes, ElementOfSeq, LenProperties
  <2>2. QED
    BY <2>1 DEF SelectMember, Objects
<1>2. PICK f : f = Frame(panel[i], NoObject)
  OBVIOUS
<1>3. f \in Frames
  BY <1>1, <1>2 DEF Frame, Frames
<1>4. path \in Seq(Frames) /\ Len(path) \in Nat /\ Len(path) >= 1 /\ Len(path) + 1 <= MaxDepth
  <2>1. path \in Seq(Frames) /\ Len(path) \in Nat /\ MaxDepth \in Nat /\ Len(path) \in 1..(MaxDepth - 1)
    BY ViewTypes, LenProperties, BoundsAssumption DEF SelectMember
  <2>2. QED
    BY <2>1
<1>5. PICK k \in 1..Len(path) : k = Len(path)
  BY <1>4
<1>6. i \in Nat
  BY ViewTypes, LenProperties
<1>7. PICK g : g = [path[k] EXCEPT !.index = i]
  OBVIOUS
<1>8. g \in Frames
  <2>1. path[k] \in Frames
    BY <1>4, ElementOfSeq
  <2>2. QED
    BY <1>6, <1>7, <2>1 DEF Frames
<1>9. PICK p : p = [path EXCEPT ![k] = g]
  OBVIOUS
<1>10. p \in Seq(Frames) /\ Len(p) = Len(path)
  BY <1>4, <1>8, <1>9, ExceptSeq
<1>11. path' = Append(p, f)
  BY <1>2, <1>5, <1>7, <1>9 DEF SelectMember
<1>12. path' \in Seq(Frames) /\ Len(path') <= MaxDepth
  BY <1>3, <1>4, <1>10, <1>11, AppendProperties
<1>13. QED
  BY <1>1, <1>12, DescendTypes DEF SelectMember

LEMMA NavigateToTypes ==
  ASSUME TypeInv, NEW d \in DOMAIN path, NavigateTo(d), UNCHANGED spaceVars
  PROVE  TypeInv'
<1>1. path \in Seq(Frames) /\ Len(path) \in Nat /\ Len(path) <= MaxDepth /\ MaxDepth \in Nat
  BY ViewTypes, LenProperties, BoundsAssumption
<1>2. d \in 1..Len(path)
  BY <1>1, LenProperties
<1>3. path[d].object \in Stored \ {NoObject}
  <2>1. path[d] \in Frames
    BY <1>1, <1>2, ElementOfSeq
  <2>2. QED
    BY <2>1 DEF Frames
<1>4. path' = SubSeq(path, 1, d)
  BY DEF NavigateTo
<1>5. path' \in Seq(Frames) /\ Len(path') = d
  BY <1>1, <1>2, <1>4, SubSeqProperties
<1>6. Len(path') <= MaxDepth
  BY <1>1, <1>2, <1>5
<1>7. QED
  BY <1>3, <1>5, <1>6, DescendTypes DEF NavigateTo

LEMMA FetchedTypes ==
  ASSUME TypeInv, NEW o \in fetches, Fetched(o), UNCHANGED spaceVars
  PROVE  TypeInv'
<1>1. o \in Stored \ {NoObject} /\ path \in Seq(Frames) /\ Len(path) \in Nat
  BY ViewTypes, LenProperties
<1>2. o.members \in Seq(Objects) /\ o.text \in Words
  BY <1>1 DEF TypeInv, Words
<1>3. path' \in Seq(Frames) /\ Len(path') = Len(path)
  <2>1. CASE path' = path
    BY <1>1, <2>1
  <2>2. CASE path # <<>> /\ path' = [path EXCEPT ![Len(path)].members = o.members]
    <3>1. PICK k \in 1..Len(path) : k = Len(path)
      BY <1>1, <2>2, EmptySeq
    <3>2. PICK g : g = [path[k] EXCEPT !.members = o.members]
      OBVIOUS
    <3>3. g \in Frames
      <4>1. path[k] \in Frames
        BY <1>1, ElementOfSeq
      <4>2. QED
        BY <1>2, <3>2, <4>1 DEF Frames
    <3>4. path' = [path EXCEPT ![k] = g]
      BY <2>2, <3>1, <3>2
    <3>5. QED
      BY <1>1, <3>3, <3>4, ExceptSeq
  <2>3. QED
    BY <2>1, <2>2 DEF Fetched
<1>4. /\ panel' \in Seq(Objects) /\ editor' \in Words /\ enabled' \in BOOLEAN
      /\ fetches' \subseteq Stored \ {NoObject}
  BY <1>2, ViewTypes DEF Fetched
<1>5. /\ save' = Disturb(save) /\ UNCHANGED serverVars /\ active' = active /\ nameList' = nameList
      /\ inputs' = inputs /\ namespace' = namespace /\ lists' = lists /\ patient' = patient
  BY DEF Fetched, spaceVars
<1>6. QED
  BY <1>3, <1>4, <1>5, ViewTypes, ViewKeepsTypes

LEMMA BrowseTypes ==
  ASSUME TypeInv, Browse, UNCHANGED spaceVars
  PROVE  TypeInv'
<1>0. namespace' = namespace /\ lists' = lists /\ patient' = patient
  BY DEF spaceVars
<1>1. CASE NavigateToNames
  <2>1. /\ path' = <<>> /\ panel' = <<>> /\ editor' = Blank /\ enabled' = FALSE
        /\ save' = Disturb(save) /\ UNCHANGED serverVars
        /\ active' = active /\ nameList' = nameList /\ fetches' = fetches /\ Input
    BY <1>1 DEF NavigateToNames
  <2>2. editor' \in Words /\ enabled' \in BOOLEAN /\ inputs' \in 0..MaxInputs
    BY <2>1, ViewTypes, InputTypes DEF Words
  <2>3. QED
    BY <1>0, <2>1, <2>2, ViewTypes, ViewKeepsTypes
<1>2. CASE NewObject
  <2>1. /\ path' = <<>> /\ panel' = panel /\ editor' = Blank /\ enabled' = TRUE
        /\ save' = Disturb(save) /\ UNCHANGED serverVars
        /\ active' = active /\ nameList' = nameList /\ fetches' = fetches /\ Input
    BY <1>2 DEF NewObject
  <2>2. editor' \in Words /\ enabled' \in BOOLEAN /\ inputs' \in 0..MaxInputs
    BY <2>1, ViewTypes, InputTypes DEF Words
  <2>3. QED
    BY <1>0, <2>1, <2>2, ViewTypes, ViewKeepsTypes
<1>3. ASSUME NEW o \in fetches, FetchFails(o)
      PROVE  TypeInv'
  <2>1. /\ fetches' \subseteq Stored \ {NoObject} /\ save' = save /\ UNCHANGED serverVars
        /\ active' = active /\ path' = path /\ panel' = panel /\ nameList' = nameList
        /\ editor' = editor /\ enabled' = enabled /\ inputs' = inputs
    BY <1>3, ViewTypes DEF FetchFails, viewVars
  <2>2. QED
    BY <1>0, <2>1, ViewTypes, ViewKeepsTypes
<1>4. ASSUME NEW t \in Texts, Type(t)
      PROVE  TypeInv'
  <2>1. /\ editor' = t /\ enabled' = TRUE /\ save' = save /\ UNCHANGED serverVars /\ Input
        /\ active' = active /\ path' = path /\ panel' = panel /\ nameList' = nameList /\ fetches' = fetches
    BY <1>4 DEF Type
  <2>2. editor' \in Words /\ enabled' \in BOOLEAN /\ inputs' \in 0..MaxInputs
    BY <2>1, ViewTypes, InputTypes DEF Words
  <2>3. QED
    BY <1>0, <2>1, <2>2, ViewTypes, ViewKeepsTypes
<1>5. QED
  BY <1>1, <1>2, <1>3, <1>4, SelectMemberTypes, NavigateToTypes, FetchedTypes DEF Browse

-----------------------------------------------------------------------------
(* saveContent keeps the types.                                            *)

LEMMA UpdatedIsSeq ==
  ASSUME NEW S, NoObject \in S, NEW m \in Seq(S), NEW k \in Nat, NEW o \in S
  PROVE  Updated(m, k, o) \in Seq(S)
<1>1. Len(m) \in Nat /\ DOMAIN m = 1..Len(m)
  BY LenProperties
<1>2. \A j \in 1..Len(m) : m[j] \in S
  BY ElementOfSeq
<1>3. PICK n \in Nat : n = IF k > Len(m) THEN k ELSE Len(m)
  BY <1>1
<1>4. Updated(m, k, o) = [j \in 1..n |-> IF j = k THEN o ELSE IF j <= Len(m) THEN m[j] ELSE NoObject]
  BY <1>3 DEF Updated
<1>5. \A j \in 1..n : (IF j = k THEN o ELSE IF j <= Len(m) THEN m[j] ELSE NoObject) \in S
  BY <1>1, <1>2
<1>6. Updated(m, k, o) \in [1..n -> S]
  BY <1>4, <1>5
<1>7. QED
  BY <1>6, SeqDef

LEMMA EndsTypes ==
  ASSUME TypeInv, NEW s \in Saves, Ends(s),
         caps' = caps \/ (caps' = caps \cup {save[s].object} /\ save[s].object \in Pieces),
         active' \in caps' \cup {NoCapability}, panel' \in {panel, <<>>},
         nameList' \in [Labels -> Objects], editor' \in Words,
         UNCHANGED <<names, path, fetches, inputs, spaceVars>>
  PROVE  TypeInv'
<1>1. Continues(s, Idle) /\ enabled' \in BOOLEAN
  BY DEF Ends, Continues
<1>2. Idle \in Calls' /\ Idle.pc = "idle"
  BY IdleIsCall, MoreIsStored
<1>3. names' \in [Spaces -> [Labels -> Objects]] /\ inputs' \in 0..MaxInputs
  BY ViewTypes
<1>4. QED
  BY <1>1, <1>2, <1>3, CallKeepsTypes

\* What the invariant says of a call.
LEMMA CallTypes ==
  ASSUME TypeInv, NEW s \in Saves
  PROVE  /\ save[s] \in Calls /\ save \in [Saves -> Calls]
         /\ save[s].pc \in Points /\ save[s].content \in Words /\ save[s].at \in Nat
         /\ save[s].space \in Spaces /\ save[s].label \in Labels \cup {NoObject}
         /\ save[s].pc \in {"stash", "collection", "name", "new name"} => save[s].object \in Pieces
         /\ save[s].pc \in {"name", "new name"}
              => save[s].object \in caps /\ save[s].label \in Labels
BY DEF TypeInv, Calls

LEMMA PostTypes ==
  ASSUME TypeInv, NEW s \in Saves, NEW j \in Int, NEW token \in caps' \cup {NoCapability},
         save[s].object \in Pieces, caps' = caps \cup {save[s].object},
         active' \in caps' \cup {NoCapability},
         PostCollection(s, save[s].object, j) \/ PostName(s, save[s].object, j, token),
         UNCHANGED <<names, path, panel, nameList, fetches, inputs, spaceVars>>
  PROVE  TypeInv'
<1>1. /\ Stored \subseteq Stored' /\ Objects \subseteq Objects' /\ Words \subseteq Words'
      /\ Seq(Objects) \subseteq Seq(Objects)'
      /\ Pieces \subseteq Pieces' /\ Calls \subseteq Calls'
  BY MoreIsStored
<1>2. /\ save[s] \in Calls /\ save \in [Saves -> Calls] /\ save[s].content \in Words
      /\ save[s].object \in Stored'
  BY CallTypes DEF Stored
<1>3. /\ names' \in [Spaces -> [Labels -> Objects]] /\ nameList' \in [Labels -> Objects]
      /\ inputs' \in 0..MaxInputs /\ namespace \in Spaces /\ editor \in Words /\ enabled \in BOOLEAN
      /\ path \in Seq(Frames)
  BY ViewTypes
<1>4. ASSUME NEW d, save' = [save EXCEPT ![s] = d], d \in Calls', UNCHANGED <<enabled, editor>>,
             d.object \in Pieces',
             d.pc \in {"name", "new name"} => d.object \in caps' /\ d.label \in Labels
      PROVE  TypeInv'
  <2>1. Continues(s, d) /\ editor' \in Words /\ enabled' \in BOOLEAN /\ path' = path /\ panel' = panel
    BY <1>3, <1>4 DEF Continues
  <2>2. UNCHANGED <<spaceVars, fetches>>
    OBVIOUS
  <2>3. QED
    BY <1>3, <1>4, <2>1, <2>2, CallKeepsTypes
<1>5. ASSUME Ends(s), editor' \in Words
      PROVE  TypeInv'
  BY <1>3, <1>5, EndsTypes
<1>6. CASE PostCollection(s, save[s].object, j)
  <2>1. CASE UNCHANGED editor /\ Ends(s)
    BY <1>3, <1>5, <2>1
  <2>2. CASE /\ j <= Len(path) /\ path[j].members # NoMembers
             /\ save' = [save EXCEPT ![s].pc = "collection", ![s].at = j,
                           ![s].object = Collection(Updated(path[j].members, path[j].index, save[s].object))]
             /\ UNCHANGED <<enabled, editor>>
    <3>0. j >= 2 /\ j \in Nat /\ j \in 1..Len(path)
      BY <1>3, <1>6, <2>2, LenProperties DEF PostCollection
    <3>1. path[j] \in Frames
      BY <1>3, <3>0, ElementOfSeq
    <3>2. path[j].members \in Seq(Objects') /\ path[j].index \in Nat
      BY <1>1, <2>2, <3>1 DEF Frames
    <3>3. PICK m : m = Updated(path[j].members, path[j].index, save[s].object)
      OBVIOUS
    <3>4. NoObject \in Objects' /\ save[s].object \in Objects'
      BY <1>2 DEF Objects
    <3>5. m \in Seq(Objects')
      BY <3>2, <3>3, <3>4, UpdatedIsSeq
    <3>6. PICK q : q = Collection(m)
      OBVIOUS
    <3>7. q \in Pieces'
      BY <3>5, <3>6 DEF Collection, Pieces, Words
    <3>8. PICK d : d = [save[s] EXCEPT !.pc = "collection", !.at = j, !.object = q]
      OBVIOUS
    <3>9. d \in Calls' /\ d.pc = "collection" /\ d.object = q
      BY <1>1, <1>2, <3>0, <3>7, <3>8 DEF Calls, Points
    <3>10. save' = [save EXCEPT ![s] = d]
      BY <2>2, <3>3, <3>6, <3>8
    <3>11. QED
      BY <1>4, <2>2, <3>7, <3>9, <3>10
  <2>3. QED
    BY <1>6, <2>1, <2>2 DEF PostCollection
<1>7. CASE PostName(s, save[s].object, j, token)
  <2>1. CASE Ends(s) /\ editor' = save[s].content
    BY <1>2, <1>5, <2>1
  <2>2. ASSUME NEW l \in Labels, NEW p \in {"name", "new name"},
               save' = [save EXCEPT ![s].pc = p, ![s].label = l, ![s].space = namespace,
                                    ![s].object = save[s].object, ![s].token = token],
               UNCHANGED <<enabled, editor>>
        PROVE  TypeInv'
    <3>1. PICK d : d = [save[s] EXCEPT !.pc = p, !.label = l, !.space = namespace,
                                       !.object = save[s].object, !.token = token]
      OBVIOUS
    <3>2. token \in Stored' \cup {NoCapability} /\ save[s].object \in Pieces'
      BY <1>1 DEF Stored
    <3>3. d \in Calls' /\ d.pc = p /\ d.object = save[s].object /\ d.label = l
      BY <1>1, <1>2, <1>3, <3>1, <3>2 DEF Calls, Points
    <3>4. save' = [save EXCEPT ![s] = d]
      BY <2>2, <3>1
    <3>5. QED
      BY <1>4, <2>2, <3>2, <3>3, <3>4
  <2>3. CASE \E l \in Labels :
               /\ save' = [save EXCEPT ![s].pc = IF path = <<>> THEN "new name" ELSE "name",
                                       ![s].label = l, ![s].space = namespace,
                                       ![s].object = save[s].object, ![s].token = token]
               /\ UNCHANGED <<enabled, editor>>
    BY <2>2, <2>3
  <2>4. QED
    BY <1>7, <2>1, <2>3 DEF PostName
<1>8. QED
  BY <1>6, <1>7

LEMMA PressTypes ==
  ASSUME TypeInv, NEW s \in Saves, Press(s), UNCHANGED spaceVars
  PROVE  TypeInv'
<1>1. /\ caps' = caps /\ names' = names /\ active' = active /\ path' = path /\ panel' = panel
      /\ nameList' = nameList /\ editor' = editor /\ fetches' = fetches /\ enabled' = FALSE /\ Input
  BY DEF Press, serverVars
<1>2. PICK b : b = (fetches = {} /\ \A r \in Saves : save[r].pc = "idle")
  OBVIOUS
<1>3. b \in BOOLEAN
  BY <1>2, Zenon
<1>4. PICK o : o = Text(editor)
  OBVIOUS
<1>5. o \in Pieces
  BY <1>4, ViewTypes, EmptyIsSeq DEF Text, Pieces
<1>6. PICK d : d = [Idle EXCEPT !.pc = "stash", !.content = editor, !.object = o,
                                !.start = path, !.from = namespace, !.steady = b]
  OBVIOUS
<1>7. save' = [Disturb(save) EXCEPT ![s] = d]
  BY <1>2, <1>4, <1>6 DEF Press
<1>8. d \in Calls /\ d.pc = "stash" /\ d.object = o
  BY <1>3, <1>5, <1>6, IdleIsCall, ViewTypes DEF Calls, Points
<1>9. Calls \subseteq Calls' /\ Pieces \subseteq Pieces'
  BY <1>1, MoreIsStored
<1>10. inputs' \in 0..MaxInputs
  BY <1>1, ViewTypes, InputTypes
<1>11. UNCHANGED <<spaceVars, fetches>>
  BY <1>1
<1>12. Continues(s, d)
  BY <1>7 DEF Continues
<1>13. QED
  BY <1>1, <1>5, <1>8, <1>9, <1>10, <1>11, <1>12, ViewTypes, CallKeepsTypes

\* A call that asks for the list of names.
LEMMA PostListTypes ==
  ASSUME TypeInv, NEW s \in Saves, NEW pc \in {"new list", "list"}, PostList(s, pc),
         names' \in [Spaces -> [Labels -> Objects]], nameList' \in [Labels -> Objects],
         editor' \in {editor, save[s].content}, enabled' \in {enabled, TRUE},
         UNCHANGED <<caps, active, path, panel, fetches, inputs, spaceVars>>
  PROVE  TypeInv'
<1>0. save[s] \in Calls /\ namespace \in Spaces
  BY CallTypes, ViewTypes
<1>1. PICK d : d = [save[s] EXCEPT !.pc = pc, !.space = namespace]
  OBVIOUS
<1>2. d \in Calls /\ d.pc = pc
  BY <1>0, <1>1 DEF Calls, Points
<1>3. Continues(s, d) /\ Calls \subseteq Calls'
  BY <1>1, MoreIsStored DEF PostList, Continues
<1>4. editor' \in Words /\ enabled' \in BOOLEAN /\ UNCHANGED <<spaceVars, fetches>>
  BY CallTypes, ViewTypes
<1>5. active' \in caps' \cup {NoCapability} /\ inputs' \in 0..MaxInputs
  BY ViewTypes
<1>6. QED
  BY <1>2, <1>3, <1>4, <1>5, CallKeepsTypes

LEMMA AnsweredTypes ==
  ASSUME TypeInv, NEW s \in Saves, Answered(s), UNCHANGED spaceVars
  PROVE  TypeInv'
<1>0. /\ names \in [Spaces -> [Labels -> Objects]] /\ nameList \in [Labels -> Objects]
      /\ editor \in Words /\ active \in caps \cup {NoCapability} /\ path \in Seq(Frames)
      /\ Len(path) \in Nat
  BY ViewTypes, LenProperties
<1>1. CASE Stashed(s)
  <2>1. PICK j \in Int : j = Len(path) - 1
    BY <1>0
  <2>2. /\ PostCollection(s, save[s].object, j) \/ PostName(s, save[s].object, j, active')
        /\ caps' = caps \cup {save[s].object} /\ active' \in caps' \cup {NoCapability}
        /\ UNCHANGED <<names, path, panel, nameList, fetches, inputs, spaceVars>>
    BY <1>1, <2>1 DEF Stashed
  <2>3. save[s].object \in Pieces
    BY <1>1, CallTypes DEF Stashed
  <2>4. QED
    BY <2>2, <2>3, PostTypes
<1>2. CASE Copied(s)
  <2>0. save[s].at \in Nat
    BY CallTypes
  <2>1. PICK j \in Int : j = save[s].at - 1
    BY <2>0
  <2>2. /\ PostCollection(s, save[s].object, j) \/ PostName(s, save[s].object, j, active)
        /\ caps' = caps \cup {save[s].object} /\ active' = active
        /\ UNCHANGED <<names, path, panel, nameList, fetches, inputs, spaceVars>>
    BY <1>2, <2>1 DEF Copied
  <2>3. save[s].object \in Pieces /\ active \in caps' \cup {NoCapability}
    BY <1>0, <1>2, <2>2, CallTypes DEF Copied
  <2>4. active' \in caps' \cup {NoCapability}
    BY <2>2, <2>3
  <2>5. QED
    BY <2>2, <2>3, <2>4, PostTypes
<1>3. CASE Named(s)
  <2>1. save[s].object \in Objects
    BY <1>3, CallTypes DEF Named, Objects, Stored
  <2>2. names' \in [Spaces -> [Labels -> Objects]]
    <3>1. PICK n, l, o : n = save[s].space /\ l = save[s].label /\ o = save[s].object
      OBVIOUS
    <3>2. names' = [names EXCEPT ![n] = [names[n] EXCEPT ![l] = o]]
      BY <1>3, <3>1 DEF Named
    <3>3. \A m \in Spaces : [names[m] EXCEPT ![l] = o] \in [Labels -> Objects]
      BY <1>0, <2>1, <3>1
    <3>4. QED
      BY <1>0, <3>2, <3>3
  <2>3. \/ ShowSaved(s)
        \/ PostList(s, "new list") /\ UNCHANGED <<editor, enabled>>
    BY <1>3 DEF Named
  <2>4. /\ PostList(s, "list") \/ PostList(s, "new list")
        /\ editor' \in {editor, save[s].content} /\ enabled' \in {enabled, TRUE}
    BY <2>3 DEF ShowSaved
  <2>5. /\ UNCHANGED <<caps, active, path, panel, fetches, inputs, spaceVars>>
        /\ nameList' \in [Labels -> Objects]
    BY <1>0, <1>3 DEF Named
  <2>6. QED
    BY <2>2, <2>4, <2>5, PostListTypes
<1>4. CASE NotCovered(s)
  <2>1. /\ Ends(s) /\ caps' = caps /\ active' = active /\ panel' = panel /\ nameList' = nameList
        /\ editor' = editor /\ UNCHANGED <<names, path, fetches, inputs, spaceVars>>
    BY <1>4 DEF NotCovered, serverVars
  <2>2. QED
    BY <1>0, <2>1, EndsTypes
<1>5. CASE NewListed(s)
  <2>1. /\ PostList(s, "list") /\ editor' = save[s].content /\ enabled' = TRUE
        /\ names' = names /\ nameList' = names[save[s].space]
        /\ UNCHANGED <<caps, active, path, panel, fetches, inputs, spaceVars>>
    BY <1>5 DEF NewListed, ShowSaved, serverVars
  <2>2. nameList' \in [Labels -> Objects]
    BY <1>0, <2>1, CallTypes
  <2>3. QED
    BY <1>0, <2>1, <2>2, PostListTypes
<1>6. CASE Listed(s)
  <2>1. /\ Ends(s) /\ caps' = caps /\ active' = active /\ panel' = <<>>
        /\ nameList' = names[save[s].space]
        /\ editor' = editor /\ UNCHANGED <<names, path, fetches, inputs, spaceVars>>
    BY <1>6 DEF Listed, serverVars
  <2>2. nameList' \in [Labels -> Objects]
    BY <1>0, <2>1, CallTypes
  <2>3. QED
    BY <1>0, <2>1, <2>2, EndsTypes
<1>7. QED
  BY <1>1, <1>2, <1>3, <1>4, <1>5, <1>6 DEF Answered

LEMMA FailTypes ==
  ASSUME TypeInv, NEW s \in Saves, SaveFails(s), UNCHANGED spaceVars
  PROVE  TypeInv'
<1>1. /\ Ends(s) /\ caps' = caps /\ active' = active /\ panel' = panel /\ nameList' = nameList
      /\ editor' = editor /\ UNCHANGED <<names, path, fetches, inputs, spaceVars>>
  BY DEF SaveFails, serverVars
<1>2. QED
  BY <1>1, ViewTypes, EndsTypes

LEMMA NextTypes == TypeInv /\ [Next]_vars => TypeInv'
<1> SUFFICES ASSUME TypeInv, [Next]_vars
             PROVE  TypeInv'
  OBVIOUS
<1>1. CASE Navigate
  BY <1>1, NavigateTypes
<1>2. CASE Browse /\ UNCHANGED spaceVars
  BY <1>2, BrowseTypes
<1>3. CASE SaveContent /\ UNCHANGED spaceVars
  <2>1. PICK s \in Saves : Press(s) \/ Answered(s) \/ SaveFails(s)
    BY <1>3 DEF SaveContent
  <2>2. QED
    BY <1>3, <2>1, PressTypes, AnsweredTypes, FailTypes
<1>4. CASE UNCHANGED vars
  <2>1. /\ UNCHANGED serverVars /\ save' = save /\ active' = active /\ path' = path
        /\ panel' = panel /\ nameList' = nameList /\ editor' = editor /\ enabled' = enabled
        /\ fetches' = fetches /\ namespace' = namespace /\ lists' = lists /\ patient' = patient
        /\ inputs' = inputs
    BY <1>4 DEF vars, viewVars, spaceVars
  <2>2. QED
    BY <2>1, ViewTypes, ViewKeepsTypes
<1>5. QED
  BY <1>1, <1>2, <1>3, <1>4 DEF Next

\* In every state of the editor: the types, and trees made of what the server has.
THEOREM EditorInvariant == Spec => []TypeInv
<1>1. Init => TypeInv
  BY InitTypes
<1>2. TypeInv /\ [Next]_vars => TypeInv'
  BY NextTypes
<1>3. QED
  BY <1>1, <1>2, PTL DEF Spec

\* The types of the editor's variables; what is shown, asked for or sent as a
\* capability is something the server has.
THEOREM EditorTypes == Spec => []TypeOK
<1>1. TypeInv => TypeOK
  BY DEF TypeInv
<1>2. QED
  BY <1>1, EditorInvariant, PTL

\* However saves, clicks and answers interleave, no name and no collection refers
\* to an object that the server does not have.
THEOREM NoTreeIsBroken == Spec => []TreesAreWhole
<1>1. TypeInv => TreesAreWhole
  <2> SUFFICES ASSUME TypeInv
               PROVE  TreesAreWhole
    OBVIOUS
  <2>1. \A n \in Spaces, l \in Labels : names[n][l] \in Objects
    BY ViewTypes
  <2>2. ASSUME NEW o \in Stored \ {NoObject}
        PROVE  ToSet(o.members) \subseteq Objects
    <3>1. o.members \in Seq(Objects)
      BY DEF TypeInv
    <3>2. QED
      BY <3>1, ElementOfSeq, LenProperties DEF ToSet
  <2>3. Members(Stored) \subseteq Objects
    BY <2>2 DEF Members
  <2>4. QED
    BY <2>1, <2>3 DEF TreesAreWhole
<1>2. QED
  BY <1>1, EditorInvariant, PTL

-----------------------------------------------------------------------------
(* Steady saves.                                                           *)

\* What disturbs every save leaves none steady.
LEMMA NoneSteady ==
  ASSUME TypeInv, save' = Disturb(save)
  PROVE  SteadyInv'
<1>1. save \in [Saves -> Calls]
  BY DEF TypeInv
<1>2. PICK g \in [Saves -> Calls] : g = Disturb(save) /\ \A s \in Saves : g[s].steady = FALSE
  BY <1>1, DisturbedCalls
<1>3. \A s \in Saves : save'[s].steady = FALSE
  BY <1>2
<1>4. QED
  BY <1>3 DEF SteadyInv

\* Nor do lists that arrive, fetches that fail and typing, none of which it sees.
LEMMA SteadyUnseen ==
  ASSUME SteadyInv, UNCHANGED <<names, active, path, namespace, save>>, fetches' \subseteq fetches
  PROVE  SteadyInv'
<1>1. SUFFICES ASSUME NEW s \in Saves, save[s].steady
               PROVE  SteadyCall(s)'
  BY DEF SteadyInv
<1>2. SteadyCall(s)
  BY <1>1 DEF SteadyInv
<1>3. QED
  BY <1>2 DEF SteadyCall

\* While a save takes a step no other save is steady.
LEMMA OnlyOneSteady ==
  ASSUME TypeInv, SteadyInv, NEW s \in Saves, NEW d, Continues(s, d),
         save[s].pc # "idle" \/ save' = [Disturb(save) EXCEPT ![s] = d],
         d.steady => SteadyCall(s)'
  PROVE  SteadyInv'
<1>1. save \in [Saves -> Calls]
  BY DEF TypeInv
<1>2. /\ save'[s] = d
      /\ \A r \in Saves \ {s} : save'[r].steady = save[r].steady \/ save'[r].steady = FALSE
  BY <1>1, ContinuesFacts
<1>3. ASSUME NEW r \in Saves \ {s}, save'[r].steady
      PROVE  FALSE
  <2>1. CASE save' = [Disturb(save) EXCEPT ![s] = d]
    <3>1. PICK g \in [Saves -> Calls] : g = Disturb(save) /\ \A q \in Saves : g[q].steady = FALSE
      BY <1>1, DisturbedCalls
    <3>2. save' = [g EXCEPT ![s] = d]
      BY <2>1, <3>1
    <3>3. save'[r] = g[r]
      BY <3>2
    <3>4. QED
      BY <1>3, <3>1, <3>3
  <2>2. CASE save[s].pc # "idle"
    <3>1. save[r].steady
      BY <1>2, <1>3
    <3>2. SteadyCall(r)
      BY <3>1 DEF SteadyInv
    <3>3. save[s].pc = "idle"
      BY <3>2 DEF SteadyCall
    <3>4. QED
      BY <2>2, <3>3
  <2>3. QED
    BY <2>1, <2>2
<1>4. \A r \in Saves : save'[r].steady => SteadyCall(r)'
  BY <1>2, <1>3
<1>5. QED
  BY <1>4 DEF SteadyInv

LEMMA SteadyEnds ==
  ASSUME TypeInv, SteadyInv, NEW s \in Saves, Ends(s)
  PROVE  SteadyInv'
<1>1. Continues(s, Idle) /\ save' = [Disturb(save) EXCEPT ![s] = Idle] /\ Idle.steady = FALSE
  BY IdleIsCall DEF Ends, Continues
<1>2. QED
  BY <1>1, OnlyOneSteady

LEMMA SteadyNavigates ==
  ASSUME TypeInv, SteadyInv, Navigate
  PROVE  SteadyInv'
<1>1. CASE save' = Disturb(save)
  BY <1>1, NoneSteady
<1>2. ASSUME NEW n \in Spaces, NamesLoaded(n) \/ NamesFail(n)
      PROVE  SteadyInv'
  <2>1. UNCHANGED <<names, active, path, namespace, save>> /\ fetches' = fetches
    BY <1>2 DEF NamesLoaded, NamesFail, serverVars
  <2>2. QED
    BY <2>1, SteadyUnseen
<1>3. (\E o, l : Open(o, l)) \/ (\E n \in Spaces : LoadNamespace(n)) => save' = Disturb(save)
  BY DEF Open, Descend, LoadNamespace
<1>4. QED
  BY <1>1, <1>2, <1>3 DEF Navigate, SelectName, NavigateToHash

LEMMA SteadyBrowses ==
  ASSUME TypeInv, SteadyInv, Browse, UNCHANGED spaceVars
  PROVE  SteadyInv'
<1>1. CASE save' = Disturb(save)
  BY <1>1, NoneSteady
<1>2. ASSUME NEW o \in fetches, FetchFails(o)
      PROVE  SteadyInv'
  <2>1. UNCHANGED <<names, active, path, namespace, save>> /\ fetches' \subseteq fetches
    BY <1>2 DEF FetchFails, serverVars, spaceVars
  <2>2. QED
    BY <2>1, SteadyUnseen
<1>3. ASSUME NEW t \in Texts, Type(t)
      PROVE  SteadyInv'
  <2>1. UNCHANGED <<names, active, path, namespace, save>> /\ fetches' \subseteq fetches
    BY <1>3 DEF Type, serverVars, spaceVars
  <2>2. QED
    BY <2>1, SteadyUnseen
<1>4. \/ \E i \in DOMAIN panel : SelectMember(i)
      \/ \E k \in DOMAIN path : NavigateTo(k)
      \/ NavigateToNames \/ NewObject
      \/ \E o \in fetches : Fetched(o)
      => save' = Disturb(save)
  BY DEF SelectMember, NavigateTo, Descend, NavigateToNames, NewObject, Fetched
<1>5. QED
  BY <1>1, <1>2, <1>3, <1>4 DEF Browse

LEMMA SteadyPressed ==
  ASSUME TypeInv, SteadyInv, NEW s \in Saves, Press(s), UNCHANGED spaceVars
  PROVE  SteadyInv'
<1>1. PICK b : b = (fetches = {} /\ \A r \in Saves : save[r].pc = "idle")
  OBVIOUS
<1>2. PICK d : d = [Idle EXCEPT !.pc = "stash", !.content = editor, !.object = Text(editor),
                                !.start = path, !.from = namespace, !.steady = b]
  OBVIOUS
<1>3. /\ d.pc = "stash" /\ d.content = editor /\ d.object = Text(editor) /\ d.start = path
      /\ d.from = namespace /\ d.steady = b
  BY <1>2 DEF Idle
<1>4. save' = [Disturb(save) EXCEPT ![s] = d] /\ fetches' = fetches /\ path' = path /\ namespace' = namespace
  BY <1>1, <1>2 DEF Press, spaceVars
<1>5. Continues(s, d)
  BY <1>4 DEF Continues
<1>6. save \in [Saves -> Calls]
  BY DEF TypeInv
<1>7. save'[s] = d /\ \A r \in Saves \ {s} : save'[r].pc = save[r].pc
  BY <1>5, <1>6, ContinuesFacts DEF Alike
<1>8. ASSUME d.steady
      PROVE  SteadyCall(s)'
  <2>1. fetches = {} /\ \A r \in Saves : save[r].pc = "idle"
    BY <1>1, <1>3, <1>8
  <2>2. QED
    BY <1>3, <1>4, <1>7, <2>1 DEF SteadyCall
<1>9. QED
  BY <1>4, <1>5, <1>8, OnlyOneSteady

\* A step that goes on with a request; what SteadyCall says of one.
LEMMA SteadyPosts ==
  ASSUME TypeInv, SteadyInv, NEW s \in Saves, NEW j, NEW token,
         save[s].pc \in {"stash", "collection"},
         PostCollection(s, save[s].object, j) \/ PostName(s, save[s].object, j, token),
         save[s].steady => active' = Text(save[s].content) /\ token = Text(save[s].content),
         UNCHANGED <<names, path, fetches, spaceVars>>
  PROVE  SteadyInv'
<1>0. save \in [Saves -> Calls] /\ path \in Seq(Frames) /\ namespace' = namespace
  BY DEF TypeInv, spaceVars
<1>1. CASE Ends(s)
  BY <1>1, SteadyEnds
<1>2. ASSUME NEW d, save' = [save EXCEPT ![s] = d],
             d.content = save[s].content, d.start = save[s].start, d.from = save[s].from,
             d.steady = save[s].steady,
             \/ d.pc = "collection"
             \/ /\ d.pc \in {"name", "new name"} /\ d.token = token /\ d.space = namespace
                /\ path # <<>> => d.label = path[1].label
      PROVE  SteadyInv'
  <2>1. Continues(s, d)
    BY <1>2 DEF Continues
  <2>2. save'[s] = d /\ \A r \in Saves \ {s} : save'[r].pc = save[r].pc
    BY <1>0, <2>1, ContinuesFacts DEF Alike
  <2>3. ASSUME d.steady
        PROVE  SteadyCall(s)'
    <3>1. SteadyCall(s)
      BY <1>2, <2>3 DEF SteadyInv
    <3>2. active' = Text(d.content) /\ token = Text(d.content)
      BY <1>2, <2>3
    <3>3. /\ fetches' = {} /\ path' = d.start /\ namespace' = d.from /\ namespace = d.from
          /\ \A r \in Saves : r # s => save'[r].pc = "idle"
      BY <1>0, <1>2, <2>2, <3>1 DEF SteadyCall
    <3>4. /\ d.pc # "idle" /\ d.pc # "stash" /\ d.pc \notin {"new list", "list"}
          /\ d.pc \in {"name", "new name"} => d.token = Text(d.content) /\ d.space = d.from
          /\ d.pc \in {"name", "new name", "new list", "list"} /\ d.start # <<>>
               => d.label = d.start[1].label
      BY <1>2, <3>2, <3>3
    <3>5. QED
      BY <2>2, <3>2, <3>3, <3>4 DEF SteadyCall
  <2>4. QED
    BY <2>1, <2>3, OnlyOneSteady
<1>3. ASSUME NEW o, save' = [save EXCEPT ![s].pc = "collection", ![s].at = j, ![s].object = o]
      PROVE  SteadyInv'
  <2>1. PICK d : d = [save[s] EXCEPT !.pc = "collection", !.at = j, !.object = o]
    OBVIOUS
  <2>2. save' = [save EXCEPT ![s] = d]
    BY <1>3, <2>1
  <2>3. save[s] \in Calls
    BY <1>0
  <2>4. /\ d.content = save[s].content /\ d.start = save[s].start /\ d.from = save[s].from
        /\ d.steady = save[s].steady /\ d.pc = "collection"
    BY <2>1, <2>3 DEF Calls
  <2>5. QED
    BY <1>2, <2>2, <2>4
<1>4. ASSUME NEW p \in {"name", "new name"}, NEW l, path # <<>> => l = path[1].label,
             save' = [save EXCEPT ![s].pc = p, ![s].label = l, ![s].space = namespace,
                                  ![s].object = save[s].object, ![s].token = token]
      PROVE  SteadyInv'
  <2>1. PICK d : d = [save[s] EXCEPT !.pc = p, !.label = l, !.space = namespace,
                                     !.object = save[s].object, !.token = token]
    OBVIOUS
  <2>2. save' = [save EXCEPT ![s] = d]
    BY <1>4, <2>1
  <2>3. save[s] \in Calls
    BY <1>0
  <2>4. /\ d.content = save[s].content /\ d.start = save[s].start /\ d.from = save[s].from
        /\ d.steady = save[s].steady /\ d.pc = p /\ d.token = token /\ d.space = namespace
        /\ d.label = l
    BY <2>1, <2>3 DEF Calls
  <2>5. QED
    BY <1>2, <1>4, <2>2, <2>4
<1>5. CASE PostCollection(s, save[s].object, j)
  BY <1>1, <1>3, <1>5 DEF PostCollection
<1>6. CASE PostName(s, save[s].object, j, token)
  BY <1>1, <1>4, <1>6 DEF PostName
<1>7. QED
  BY <1>5, <1>6

\* A step that goes on to ask for the names.
LEMMA SteadyLists ==
  ASSUME TypeInv, SteadyInv, NEW s \in Saves, NEW pc \in {"new list", "list"}, PostList(s, pc),
         save[s].pc # "idle", UNCHANGED <<path, fetches, spaceVars>>,
         save[s].steady =>
           /\ names'[save[s].from][save[s].label] = Text(save[s].content)
           /\ save[s].start # <<>> => save[s].label = save[s].start[1].label
  PROVE  SteadyInv'
<1>0. save \in [Saves -> Calls] /\ namespace' = namespace
  BY DEF TypeInv, spaceVars
<1>1. PICK d : d = [save[s] EXCEPT !.pc = pc, !.space = namespace]
  OBVIOUS
<1>2. save' = [Disturb(save) EXCEPT ![s] = d]
  BY <1>1 DEF PostList
<1>3. save[s] \in Calls
  BY <1>0
<1>4. /\ d.content = save[s].content /\ d.start = save[s].start /\ d.from = save[s].from
      /\ d.steady = save[s].steady /\ d.pc = pc /\ d.label = save[s].label
  BY <1>1, <1>3 DEF Calls
<1>5. Continues(s, d)
  BY <1>2 DEF Continues
<1>6. save'[s] = d /\ \A r \in Saves \ {s} : save'[r].pc = save[r].pc
  BY <1>0, <1>5, ContinuesFacts DEF Alike
<1>7. ASSUME d.steady
      PROVE  SteadyCall(s)'
  <2>1. SteadyCall(s)
    BY <1>4, <1>7 DEF SteadyInv
  <2>2. /\ fetches' = {} /\ path' = d.start /\ namespace' = d.from
        /\ \A r \in Saves : r # s => save'[r].pc = "idle"
    BY <1>0, <1>4, <1>6, <2>1 DEF SteadyCall
  <2>3. /\ names'[d.from][d.label] = Text(d.content)
        /\ d.start # <<>> => d.label = d.start[1].label
    BY <1>4, <1>7
  <2>4. QED
    BY <1>4, <1>6, <2>2, <2>3 DEF SteadyCall
<1>8. QED
  BY <1>2, <1>5, <1>7, OnlyOneSteady

LEMMA SteadyAnswered ==
  ASSUME TypeInv, SteadyInv, NEW s \in Saves, Answered(s), UNCHANGED spaceVars
  PROVE  SteadyInv'
<1>0. save[s].steady => SteadyCall(s)
  BY DEF SteadyInv
<1>1. CASE Stashed(s)
  <2>1. PICK j : j = Len(path) - 1
    OBVIOUS
  <2>2. /\ save[s].pc = "stash" /\ active' = save[s].object
        /\ PostCollection(s, save[s].object, j) \/ PostName(s, save[s].object, j, active')
        /\ UNCHANGED <<names, path, fetches, spaceVars>>
    BY <1>1, <2>1 DEF Stashed
  <2>3. save[s].steady => active' = Text(save[s].content)
    BY <1>0, <2>2 DEF SteadyCall
  <2>4. QED
    BY <2>2, <2>3, SteadyPosts
<1>2. CASE Copied(s)
  <2>1. PICK j : j = save[s].at - 1
    OBVIOUS
  <2>2. /\ save[s].pc = "collection" /\ active' = active
        /\ PostCollection(s, save[s].object, j) \/ PostName(s, save[s].object, j, active)
        /\ UNCHANGED <<names, path, fetches, spaceVars>>
    BY <1>2, <2>1 DEF Copied
  <2>3. save[s].steady => active = Text(save[s].content)
    BY <1>0, <2>2 DEF SteadyCall
  <2>4. QED
    BY <2>2, <2>3, SteadyPosts
<1>3. CASE Named(s)
  <2>1. /\ save[s].pc \in {"name", "new name"} /\ save[s].token = save[s].object
        /\ names' = [names EXCEPT ![save[s].space][save[s].label] = save[s].object]
        /\ PostList(s, "list") \/ PostList(s, "new list")
        /\ UNCHANGED <<path, fetches, spaceVars>>
    BY <1>3 DEF Named, Covers, ShowSaved
  <2>2. save[s].space \in Spaces /\ save[s].label \in Labels /\ names \in [Spaces -> [Labels -> Objects]]
    BY <2>1, CallTypes, ViewTypes
  <2>3. names'[save[s].space][save[s].label] = save[s].object
    <3>1. PICK n, l, o : n = save[s].space /\ l = save[s].label /\ o = save[s].object
      OBVIOUS
    <3>2. names' = [names EXCEPT ![n][l] = o]
      BY <2>1, <3>1
    <3>3. names'[n][l] = o
      BY <2>2, <3>1, <3>2
    <3>4. QED
      BY <3>1, <3>3
  <2>4. save[s].steady =>
          /\ names'[save[s].from][save[s].label] = Text(save[s].content)
          /\ save[s].start # <<>> => save[s].label = save[s].start[1].label
    BY <1>0, <2>1, <2>3 DEF SteadyCall
  <2>5. save[s].pc # "idle"
    BY <2>1
  <2>6. QED
    BY <2>1, <2>4, <2>5, SteadyLists
<1>4. CASE NotCovered(s) \/ Listed(s)
  BY <1>4, SteadyEnds DEF NotCovered, Listed
<1>5. CASE NewListed(s)
  <2>1. /\ save[s].pc = "new list" /\ PostList(s, "list") /\ names' = names
        /\ UNCHANGED <<path, fetches, spaceVars>>
    BY <1>5 DEF NewListed, ShowSaved, serverVars
  <2>2. save[s].steady =>
          /\ names'[save[s].from][save[s].label] = Text(save[s].content)
          /\ save[s].start # <<>> => save[s].label = save[s].start[1].label
    BY <1>0, <2>1 DEF SteadyCall
  <2>3. save[s].pc # "idle"
    BY <2>1
  <2>4. QED
    BY <2>1, <2>2, <2>3, SteadyLists
<1>6. QED
  BY <1>1, <1>2, <1>3, <1>4, <1>5 DEF Answered

LEMMA NextSteady == TypeInv /\ SteadyInv /\ [Next]_vars => SteadyInv'
<1> SUFFICES ASSUME TypeInv, SteadyInv, [Next]_vars
             PROVE  SteadyInv'
  OBVIOUS
<1>1. CASE Navigate
  BY <1>1, SteadyNavigates
<1>2. CASE Browse /\ UNCHANGED spaceVars
  BY <1>2, SteadyBrowses
<1>3. CASE SaveContent /\ UNCHANGED spaceVars
  <2>1. PICK s \in Saves : Press(s) \/ Answered(s) \/ SaveFails(s)
    BY <1>3 DEF SaveContent
  <2>2. CASE SaveFails(s)
    BY <2>2, SteadyEnds DEF SaveFails
  <2>3. QED
    BY <1>3, <2>1, <2>2, SteadyPressed, SteadyAnswered
<1>4. CASE UNCHANGED vars
  <2>1. UNCHANGED <<names, active, path, namespace, save>> /\ fetches' \subseteq fetches
    BY <1>4 DEF vars, serverVars, spaceVars
  <2>2. QED
    BY <2>1, SteadyUnseen
<1>5. QED
  BY <1>1, <1>2, <1>3, <1>4 DEF Next

\* A save during which nothing else happens and which succeeds has set the name it
\* was pressed under, where it was pressed, and to the text alone: no collection
\* that the loop has copied ever gets a name this way.
THEOREM SteadySavesNameTexts == Spec => []SteadySaveNamesText
<1>1. Init => SteadyInv
  BY IdleIsCall DEF Init, SteadyInv
<1>2. TypeInv /\ SteadyInv /\ [Next]_vars => SteadyInv'
  BY NextSteady
<1>3. SteadyInv => SteadySaveNamesText
  BY DEF SteadyInv, SteadyCall, SteadySaveNamesText, Succeeded
<1>4. QED
  BY <1>1, <1>2, <1>3, EditorInvariant, PTL DEF Spec

-----------------------------------------------------------------------------
(* Patient users.                                                          *)

\* The step of a patient user keeps what the tab shows in keeping with the names.
LEMMA PatientUnseen ==
  ASSUME TypeInv, PatientInv, UNCHANGED <<names, nameList, spaceVars>>,
         save' \in {save, Disturb(save)},
         path' # <<>> => path # <<>> /\ path'[1].label = path[1].label
  PROVE  PatientInv'
<1>1. /\ namespace' = namespace /\ lists' = lists /\ patient' = patient
      /\ save \in [Saves -> Calls] /\ names' = names /\ nameList' = nameList
  BY DEF spaceVars, TypeInv
<1>2. \A s \in Saves : /\ save'[s].pc = save[s].pc /\ save'[s].label = save[s].label
                       /\ save'[s].space = save[s].space
  <2>1. PICK g \in [Saves -> Calls] :
          /\ g = Disturb(save)
          /\ \A s \in Saves : g[s].pc = save[s].pc /\ g[s].label = save[s].label /\ g[s].space = save[s].space
    BY <1>1, DisturbedCalls DEF Alike
  <2>2. QED
    BY <2>1
<1>3. QED
  BY <1>1, <1>2 DEF PatientInv, NamedIn

\* The steps of a call.
LEMMA PatientContinues ==
  ASSUME TypeInv, PatientInv, NEW s \in Saves, NEW d, Continues(s, d), UNCHANGED <<path, spaceVars>>,
         \A n \in Spaces, l \in Labels : NamedIn(n, l) => names'[n][l] # NoObject,
         \/ nameList' = nameList
         \/ patient => nameList' = names'[namespace],
         d.pc \in {"new list", "list"} => d.space = namespace,
         patient /\ d.pc = "name" /\ d.label # Crumb => names'[d.space][d.label] # NoObject
  PROVE  PatientInv'
<1>1. /\ namespace' = namespace /\ lists' = lists /\ patient' = patient /\ path' = path
      /\ save \in [Saves -> Calls]
  BY DEF spaceVars, TypeInv
<1>0. /\ namespace \in Spaces
      /\ \A r \in Saves : save[r].space \in Spaces /\ (save[r].pc = "name" => save[r].label \in Labels)
  BY ViewTypes, CallTypes
<1>2. /\ save'[s] = d
      /\ \A r \in Saves \ {s} : /\ save'[r].pc = save[r].pc /\ save'[r].label = save[r].label
                                /\ save'[r].space = save[r].space
  <2>1. save'[s] = d /\ \A r \in Saves \ {s} : Alike(save'[r], save[r])
    BY <1>1, ContinuesFacts
  <2>2. QED
    BY <2>1 DEF Alike
<1>3. SUFFICES ASSUME patient
               PROVE  /\ lists \subseteq {namespace}
                      /\ \A r \in Saves : save'[r].pc \in {"new list", "list"} => save'[r].space = namespace
                      /\ lists = {} =>
                              \A l \in Labels : nameList'[l] # NoObject => names'[namespace][l] # NoObject
                      /\ path # <<>> /\ path[1].label \in Labels \ {Crumb}
                           => names'[namespace][path[1].label] # NoObject
                      /\ \A r \in Saves : save'[r].pc = "name" /\ save'[r].label # Crumb
                           => names'[save'[r].space][save'[r].label] # NoObject
  BY <1>1 DEF PatientInv, NamedIn
<1>4. /\ lists \subseteq {namespace}
      /\ path # <<>> /\ path[1].label \in Labels \ {Crumb} => names'[namespace][path[1].label] # NoObject
  BY <1>0, <1>3 DEF PatientInv, NamedIn
<1>5. \A r \in Saves : save'[r].pc \in {"new list", "list"} => save'[r].space = namespace
  BY <1>2, <1>3 DEF PatientInv, NamedIn
<1>6. \A r \in Saves : save'[r].pc = "name" /\ save'[r].label # Crumb
        => names'[save'[r].space][save'[r].label] # NoObject
  <2>1. \A r \in Saves : save[r].pc = "name" /\ save[r].label # Crumb
          => NamedIn(save[r].space, save[r].label)
    BY <1>3 DEF PatientInv
  <2>2. ASSUME NEW r \in Saves \ {s}, save'[r].pc = "name", save'[r].label # Crumb
        PROVE  names'[save'[r].space][save'[r].label] # NoObject
    <3>1. NamedIn(save[r].space, save[r].label)
      BY <1>2, <2>1, <2>2
    <3>2. save[r].space \in Spaces /\ save[r].label \in Labels
      BY <1>0, <1>2, <2>2
    <3>3. QED
      BY <1>2, <3>1, <3>2
  <2>3. save'[s].pc = "name" /\ save'[s].label # Crumb
          => names'[save'[s].space][save'[s].label] # NoObject
    BY <1>2, <1>3
  <2>4. QED
    BY <2>2, <2>3
<1>7. lists = {} => \A l \in Labels : nameList'[l] # NoObject => names'[namespace][l] # NoObject
  <2>1. CASE nameList' = nameList
    BY <1>0, <1>3, <2>1 DEF PatientInv, NamedIn
  <2>2. CASE nameList' = names'[namespace]
    BY <1>1, <2>2 DEF NamedIn
  <2>3. QED
    BY <1>3, <2>1, <2>2
<1>8. QED
  BY <1>4, <1>5, <1>6, <1>7

LEMMA PatientEnds ==
  ASSUME TypeInv, PatientInv, NEW s \in Saves, Ends(s), UNCHANGED <<path, names, spaceVars>>,
         nameList' = nameList \/ (patient => nameList' = names[namespace])
  PROVE  PatientInv'
<1>1. Continues(s, Idle) /\ Idle.pc = "idle"
  BY IdleIsCall DEF Ends, Continues
<1>2. \A n \in Spaces, l \in Labels : NamedIn(n, l) => names'[n][l] # NoObject
  BY DEF NamedIn
<1>3. QED
  BY <1>1, <1>2, PatientContinues

LEMMA PatientOpens ==
  ASSUME NullIsNoObject, TypeInv, PatientInv, NEW o \in Objects \ {NoObject},
         NEW l \in Labels \cup {Crumb}, Open(o, l), l = Crumb \/ nameList[l] # NoObject
  PROVE  PatientInv'
<1>1. /\ patient' = (patient /\ ~Waiting) /\ path' = <<Frame(o, l)>> /\ save' = Disturb(save)
      /\ names' = names /\ nameList' = nameList /\ namespace' = namespace /\ lists' = lists
  BY DEF Open, Descend, viewVars, serverVars
<1>2. SUFFICES ASSUME patient'
               PROVE  PatientInv'
  BY DEF PatientInv
<1>3. patient /\ lists = {} /\ \A s \in Saves : save[s].pc \notin {"new list", "list"}
  BY <1>1, <1>2 DEF Waiting
<1>4. save \in [Saves -> Calls]
  BY DEF TypeInv
<1>5. PICK g \in [Saves -> Calls] :
        /\ g = Disturb(save)
        /\ \A s \in Saves : g[s].pc = save[s].pc /\ g[s].label = save[s].label /\ g[s].space = save[s].space
  BY <1>4, DisturbedCalls DEF Alike
<1>6. path'[1].label = l
  BY <1>1 DEF Frame
<1>7. l \in Labels \ {Crumb} => names[namespace][l] # NoObject
  BY <1>3 DEF PatientInv, NamedIn
<1>8. QED
  BY <1>1, <1>3, <1>5, <1>6, <1>7 DEF PatientInv, NamedIn

LEMMA PatientNavigates ==
  ASSUME NullIsNoObject, TypeInv, PatientInv, Navigate
  PROVE  PatientInv'
<1>1. ASSUME NEW l \in Labels, SelectName(l)
      PROVE  PatientInv'
  <2>1. nameList[l] \in Objects \ {NoObject}
    BY <1>1, ViewTypes DEF SelectName
  <2>2. QED
    BY <1>1, <2>1, PatientOpens DEF SelectName
<1>2. ASSUME NEW o \in Linked, NavigateToHash(o)
      PROVE  PatientInv'
  <2>1. o \in Objects \ {NoObject}
    BY TreesAssumption DEF Stored, Objects
  <2>2. CASE Open(o, Crumb)
    BY <2>1, <2>2, PatientOpens
  <2>3. ASSUME NEW l \in Labels, nameList[l] = o, Open(o, l)
        PROVE  PatientInv'
    BY <2>1, <2>3, PatientOpens
  <2>4. QED
    BY <1>2, <2>2, <2>3 DEF NavigateToHash
<1>3. ASSUME NEW n \in Spaces, LoadNamespace(n)
      PROVE  PatientInv'
  <2>1. /\ patient' = (patient /\ ~Waiting) /\ path' = <<>> /\ save' = Disturb(save)
        /\ names' = names /\ namespace' = n /\ lists' = lists \cup {n}
    BY <1>3 DEF LoadNamespace, serverVars
  <2>2. SUFFICES ASSUME patient'
                 PROVE  PatientInv'
    BY DEF PatientInv
  <2>3. patient /\ lists = {} /\ \A s \in Saves : save[s].pc \notin {"new list", "list"}
    BY <2>1, <2>2 DEF Waiting
  <2>4. save \in [Saves -> Calls]
    BY DEF TypeInv
  <2>5. PICK g \in [Saves -> Calls] :
          /\ g = Disturb(save)
          /\ \A s \in Saves : g[s].pc = save[s].pc /\ g[s].label = save[s].label /\ g[s].space = save[s].space
    BY <2>4, DisturbedCalls DEF Alike
  <2>6. QED
    BY <2>1, <2>3, <2>5 DEF PatientInv, NamedIn
<1>4. ASSUME NEW n \in Spaces, NamesLoaded(n)
      PROVE  PatientInv'
  <2>1. /\ n \in lists /\ lists' = lists \ {n} /\ nameList' = names[n] /\ patient' = patient
        /\ names' = names /\ path' = path /\ namespace' = namespace /\ save' = save
    BY <1>4 DEF NamesLoaded, serverVars
  <2>2. patient => n = namespace
    BY <2>1 DEF PatientInv
  <2>3. QED
    BY <2>1, <2>2 DEF PatientInv, NamedIn
<1>5. ASSUME NEW n \in Spaces, NamesFail(n)
      PROVE  PatientInv'
  BY <1>5 DEF NamesFail, PatientInv
<1>6. QED
  BY <1>1, <1>2, <1>3, <1>4, <1>5 DEF Navigate

LEMMA PatientBrowses ==
  ASSUME TypeInv, PatientInv, Browse, UNCHANGED spaceVars
  PROVE  PatientInv'
<1>0. path \in Seq(Frames) /\ Len(path) \in Nat /\ DOMAIN path = 1..Len(path)
  BY ViewTypes, LenProperties
<1>1. UNCHANGED <<names, nameList, spaceVars>> /\ save' \in {save, Disturb(save)}
  BY DEF Browse, SelectMember, NavigateTo, Descend, NavigateToNames, NewObject, Fetched, FetchFails,
         Type, serverVars, viewVars
<1>2. path' # <<>> => path # <<>> /\ path'[1].label = path[1].label
  <2>1. ASSUME NEW i \in DOMAIN panel, SelectMember(i)
        PROVE  path' # <<>> => path # <<>> /\ path'[1].label = path[1].label
    <3>1. PICK k \in 1..Len(path) : k = Len(path)
      <4>1. Len(path) >= 1
        BY <1>0, <2>1, BoundsAssumption DEF SelectMember
      <4>2. \A x \in Nat : x >= 1 => x \in 1..x
        OBVIOUS
      <4>3. Len(path) \in 1..Len(path)
        BY <1>0, <4>1, <4>2
      <4>4. QED
        BY <4>3
    <3>2. PICK q : q = [path EXCEPT ![k].index = i]
      OBVIOUS
    <3>3. PICK f : f = Frame(panel[i], NoObject)
      OBVIOUS
    <3>4. path' = Append(q, f)
      BY <2>1, <3>1, <3>2, <3>3 DEF SelectMember
    <3>5. \A j \in 1..Len(path) : path[j] \in Frames
      BY <1>0, ElementOfSeq
    <3>6. PICK g : g = [path[k] EXCEPT !.index = i]
      OBVIOUS
    <3>7. i \in Nat
      BY ViewTypes, LenProperties
    <3>8. g \in Frames /\ g.label = path[k].label
      BY <3>1, <3>5, <3>6, <3>7 DEF Frames
    <3>9. q = [path EXCEPT ![k] = g]
      BY <3>2, <3>6
    <3>10. q \in Seq(Frames) /\ Len(q) = Len(path) /\ q[1].label = path[1].label
      <4>1. q \in Seq(Frames) /\ Len(q) = Len(path)
        BY <1>0, <3>1, <3>8, <3>9, ExceptSeq
      <4>2. q[1].label = path[1].label
        BY <1>0, <3>1, <3>8, <3>9
      <4>3. QED
        BY <4>1, <4>2
    <3>11. path'[1] = q[1] /\ path # <<>>
      BY <1>0, <3>1, <3>4, <3>10
    <3>12. QED
      BY <3>10, <3>11
  <2>2. ASSUME NEW k \in DOMAIN path, NavigateTo(k)
        PROVE  path' # <<>> => path # <<>> /\ path'[1].label = path[1].label
    <3>1. path' = SubSeq(path, 1, k) /\ k \in 1..Len(path)
      BY <1>0, <2>2 DEF NavigateTo
    <3>2. path'[1] = path[1] /\ path # <<>>
      BY <1>0, <3>1
    <3>3. QED
      BY <3>2
  <2>3. CASE NavigateToNames \/ NewObject
    BY <2>3 DEF NavigateToNames, NewObject
  <2>4. ASSUME NEW o \in fetches, Fetched(o)
        PROVE  path' # <<>> => path # <<>> /\ path'[1].label = path[1].label
    <3>1. CASE path' = path
      BY <3>1
    <3>2. CASE path # <<>> /\ path' = [path EXCEPT ![Len(path)].members = o.members]
      <4>1. PICK k \in 1..Len(path) : k = Len(path)
        BY <1>0, <3>2, EmptySeq
      <4>2. path[k] \in Frames
        BY <1>0, ElementOfSeq
      <4>3. PICK g : g = [path[k] EXCEPT !.members = o.members]
        OBVIOUS
      <4>4. g.label = path[k].label
        BY <4>2, <4>3 DEF Frames
      <4>5. path' = [path EXCEPT ![k] = g]
        BY <3>2, <4>1, <4>3
      <4>6. QED
        BY <1>0, <3>2, <4>1, <4>4, <4>5
    <3>3. QED
      BY <2>4, <3>1, <3>2 DEF Fetched
  <2>5. CASE (\E o \in fetches : FetchFails(o)) \/ (\E t \in Texts : Type(t))
    BY <2>5 DEF FetchFails, Type
  <2>6. QED
    BY <2>1, <2>2, <2>3, <2>4, <2>5 DEF Browse
<1>3. QED
  BY <1>1, <1>2, PatientUnseen

\* A step that goes on with a request.
LEMMA PatientPosts ==
  ASSUME TypeInv, PatientInv, NEW s \in Saves, NEW j, NEW token,
         PostCollection(s, save[s].object, j) \/ PostName(s, save[s].object, j, token),
         UNCHANGED <<names, path, nameList, spaceVars>>
  PROVE  PatientInv'
<1>0. save[s] \in Calls
  BY CallTypes
<1>1. \A n \in Spaces, l \in Labels : NamedIn(n, l) => names'[n][l] # NoObject
  BY DEF NamedIn
<1>2. CASE Ends(s)
  BY <1>2, PatientEnds
<1>3. ASSUME NEW o, save' = [save EXCEPT ![s].pc = "collection", ![s].at = j, ![s].object = o]
      PROVE  PatientInv'
  <2>1. PICK d : d = [save[s] EXCEPT !.pc = "collection", !.at = j, !.object = o]
    OBVIOUS
  <2>2. Continues(s, d) /\ d.pc = "collection"
    BY <1>0, <1>3, <2>1 DEF Continues, Calls
  <2>3. QED
    BY <1>1, <2>2, PatientContinues
<1>4. ASSUME NEW l \in Labels, path # <<>> => l = path[1].label,
             save' = [save EXCEPT ![s].pc = IF path = <<>> THEN "new name" ELSE "name",
                                  ![s].label = l, ![s].space = namespace,
                                  ![s].object = save[s].object, ![s].token = token]
      PROVE  PatientInv'
  <2>1. PICK d : d = [save[s] EXCEPT !.pc = IF path = <<>> THEN "new name" ELSE "name",
                                     !.label = l, !.space = namespace,
                                     !.object = save[s].object, !.token = token]
    OBVIOUS
  <2>2. save' = [save EXCEPT ![s] = d]
    BY <1>4, <2>1
  <2>3. /\ d.pc = (IF path = <<>> THEN "new name" ELSE "name") /\ d.label = l /\ d.space = namespace
    BY <1>0, <2>1 DEF Calls
  <2>4. patient /\ d.pc = "name" /\ d.label # Crumb => names'[d.space][d.label] # NoObject
    BY <1>1, <1>4, <2>3, ViewTypes DEF PatientInv
  <2>5. Continues(s, d) /\ d.pc \notin {"new list", "list"}
    BY <2>2, <2>3 DEF Continues
  <2>6. QED
    BY <1>1, <2>4, <2>5, PatientContinues
<1>5. CASE PostCollection(s, save[s].object, j)
  BY <1>2, <1>3, <1>5 DEF PostCollection
<1>6. CASE PostName(s, save[s].object, j, token)
  BY <1>2, <1>4, <1>6 DEF PostName
<1>7. QED
  BY <1>5, <1>6

\* A step that goes on to ask for the names.
LEMMA PatientLists ==
  ASSUME TypeInv, PatientInv, NEW s \in Saves, NEW pc \in {"new list", "list"}, PostList(s, pc),
         \A n \in Spaces, l \in Labels : NamedIn(n, l) => names'[n][l] # NoObject,
         nameList' = nameList \/ (patient => nameList' = names'[namespace]),
         UNCHANGED <<path, spaceVars>>
  PROVE  PatientInv'
<1>0. save[s] \in Calls
  BY CallTypes
<1>1. PICK d : d = [save[s] EXCEPT !.pc = pc, !.space = namespace]
  OBVIOUS
<1>2. Continues(s, d) /\ d.pc = pc /\ d.space = namespace
  BY <1>0, <1>1 DEF PostList, Continues, Calls
<1>3. QED
  BY <1>2, PatientContinues

LEMMA PatientAnswered ==
  ASSUME NullIsNoObject, TypeInv, PatientInv, NEW s \in Saves, Answered(s), UNCHANGED spaceVars
  PROVE  PatientInv'
<1>1. CASE Stashed(s) \/ Copied(s)
  <2>1. /\ \E j, token : \/ PostCollection(s, save[s].object, j)
                         \/ PostName(s, save[s].object, j, token)
        /\ UNCHANGED <<names, path, nameList, spaceVars>>
    BY <1>1 DEF Stashed, Copied
  <2>2. QED
    BY <2>1, PatientPosts
<1>2. CASE Named(s)
  <2>1. /\ save[s].pc \in {"name", "new name"}
        /\ names' = [names EXCEPT ![save[s].space][save[s].label] = save[s].object]
        /\ PostList(s, "list") \/ PostList(s, "new list")
        /\ UNCHANGED <<path, nameList, spaceVars>>
    BY <1>2 DEF Named, ShowSaved
  <2>2. /\ save[s].space \in Spaces /\ save[s].label \in Labels /\ save[s].object \in Pieces
        /\ names \in [Spaces -> [Labels -> Objects]]
    BY <2>1, CallTypes, ViewTypes
  <2>3. \A q \in Pieces : q # NoObject
    <3>1. SUFFICES ASSUME NEW q \in Pieces
                   PROVE  q # NoObject
      OBVIOUS
    <3>2. q = [text |-> q.text, members |-> q.members]
      BY DEF Pieces
    <3>3. QED
      BY <3>2 DEF NullIsNoObject
  <2>4. \A n \in Spaces, l \in Labels : NamedIn(n, l) => names'[n][l] # NoObject
    <3>1. PICK m \in Spaces, k \in Labels, o \in Pieces :
            m = save[s].space /\ k = save[s].label /\ o = save[s].object
      BY <2>2
    <3>2. names' = [names EXCEPT ![m][k] = o] /\ o # NoObject
      BY <2>1, <2>3, <3>1
    <3>3. PICK row : row = [names[m] EXCEPT ![k] = o]
      OBVIOUS
    <3>4. names' = [names EXCEPT ![m] = row]
      BY <3>2, <3>3
    <3>5. \A l \in Labels : names[m][l] # NoObject => row[l] # NoObject
      BY <2>2, <3>2, <3>3
    <3>6. \A n \in Spaces : names'[n] = (IF n = m THEN row ELSE names[n])
      BY <2>2, <3>4
    <3>7. QED
      BY <3>5, <3>6 DEF NamedIn
  <2>5. QED
    BY <2>1, <2>4, PatientLists
<1>3. CASE NotCovered(s)
  BY <1>3, PatientEnds DEF NotCovered, serverVars
<1>4. CASE NewListed(s)
  <2>1. /\ save[s].pc = "new list" /\ PostList(s, "list") /\ names' = names
        /\ nameList' = names[save[s].space] /\ UNCHANGED <<path, spaceVars>>
    BY <1>4 DEF NewListed, ShowSaved, serverVars
  <2>2. patient => nameList' = names'[namespace]
    BY <2>1 DEF PatientInv
  <2>3. \A n \in Spaces, l \in Labels : NamedIn(n, l) => names'[n][l] # NoObject
    BY <2>1 DEF NamedIn
  <2>4. QED
    BY <2>1, <2>2, <2>3, PatientLists
<1>5. CASE Listed(s)
  <2>1. /\ save[s].pc = "list" /\ Ends(s) /\ nameList' = names[save[s].space]
        /\ UNCHANGED <<path, names, spaceVars>>
    BY <1>5 DEF Listed, serverVars
  <2>2. patient => nameList' = names[namespace]
    BY <2>1 DEF PatientInv
  <2>3. QED
    BY <2>1, <2>2, PatientEnds
<1>6. QED
  BY <1>1, <1>2, <1>3, <1>4, <1>5 DEF Answered

LEMMA NextPatient == NullIsNoObject /\ TypeInv /\ PatientInv /\ [Next]_vars => PatientInv'
<1> SUFFICES ASSUME NullIsNoObject, TypeInv, PatientInv, [Next]_vars
             PROVE  PatientInv'
  OBVIOUS
<1>1. CASE Navigate
  BY <1>1, PatientNavigates
<1>2. CASE Browse /\ UNCHANGED spaceVars
  BY <1>2, PatientBrowses
<1>3. CASE SaveContent /\ UNCHANGED spaceVars
  <2>1. PICK s \in Saves : Press(s) \/ Answered(s) \/ SaveFails(s)
    BY <1>3 DEF SaveContent
  <2>2. CASE Press(s)
    <3>1. PICK d : d = [Idle EXCEPT !.pc = "stash", !.content = editor, !.object = Text(editor),
                                    !.start = path, !.from = namespace,
                                    !.steady = (fetches = {} /\ \A r \in Saves : save[r].pc = "idle")]
      OBVIOUS
    <3>2. d.pc = "stash"
      BY <3>1 DEF Idle
    <3>3. Continues(s, d) /\ UNCHANGED <<path, names, nameList, spaceVars>>
      BY <1>3, <2>2, <3>1 DEF Press, Continues, serverVars
    <3>4. \A n \in Spaces, l \in Labels : NamedIn(n, l) => names'[n][l] # NoObject
      BY <3>3 DEF NamedIn
    <3>5. QED
      BY <3>2, <3>3, <3>4, PatientContinues
  <2>3. CASE SaveFails(s)
    BY <1>3, <2>3, PatientEnds DEF SaveFails, serverVars
  <2>4. QED
    BY <1>3, <2>1, <2>2, <2>3, PatientAnswered
<1>4. CASE UNCHANGED vars
  BY <1>4, PatientUnseen DEF vars, serverVars, viewVars
<1>5. QED
  BY <1>1, <1>2, <1>3, <1>4 DEF Next

\* A patient user is asked before a name comes into being, whatever was clicked
\* while the save was under way: a name that the tab chooses by itself is one that
\* its namespace has.
THEOREM PatientUsersAreAsked ==
  ASSUME NullIsNoObject
  PROVE  Spec => []UnaskedSaveNamesExisting
<1>1. Init => PatientInv
  <2>1. \A s \in Saves : Idle.pc = "idle"
    BY IdleIsCall
  <2>2. QED
    BY <2>1 DEF Init, PatientInv, NamedIn
<1>2. TypeInv /\ PatientInv /\ [Next]_vars => PatientInv'
  BY NextPatient
<1>3. PatientInv => UnaskedSaveNamesExisting
  BY DEF PatientInv, UnaskedSaveNamesExisting, NamedIn
<1>4. QED
  BY <1>1, <1>2, <1>3, EditorInvariant, PTL DEF Spec
=============================================================================
