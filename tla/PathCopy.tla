------------------------------ MODULE PathCopy ------------------------------
(***************************************************************************)
(* The editor of the browser UI (ui/index.html): one tab of a user who has *)
(* signed in and loaded a namespace.  A click or the answer to a           *)
(* request runs to its next await without interruption; requests are       *)
(* answered in any order, and between two of them the user goes on         *)
(* clicking and typing.  saveContent reads pathStack and capabilityToken   *)
(* and namespace again after each of its awaits.                           *)
(*                                                                         *)
(* An object stands for its own hash, since the hash is computed from the  *)
(* content.  The server is only what /fetch, /stash, /collection, /name    *)
(* and /names answer.  Left out are empty collections, and of relations    *)
(* all but that they are links to other objects.                           *)
(***************************************************************************)
EXTENDS Naturals, Sequences, FiniteSets, SequencesExt, Functions

CONSTANTS
  Texts,          \* what the user types
  Blank,          \* the empty text
  Labels,
  Spaces,         \* the namespaces
  Home,           \* the namespace the tab has loaded
  InitialNames,   \* what each label of each namespace refers to at first
  Linked,         \* objects that the panel of relations leads to
  Crumb,          \* the label of such an object without a name: part of its hash
  Saves,          \* calls of saveContent that can overlap
  NoObject,       \* a label that is not in the namespace; a null in a collection
  NoMembers,      \* a frame whose object has not been shown as a collection
  NoCapability,   \* no capabilityToken: the wildcard read capability is sent
  MaxDepth,       \* bound on the navigation path
  MaxFetches,     \* bound on the fetches in flight; a namespace is asked for once at a time
  MaxInputs       \* bound on what the user does: clicks, edits and saves

Text(t)       == [text |-> t, members |-> <<>>]
Collection(m) == [text |-> Blank, members |-> m]

\* A JSON array of strings; one with a null in it is shown as a text.
IsCollection(o) == o.members # <<>> /\ NoObject \notin ToSet(o.members)

\* An object and everything below it; the model's trees are MaxDepth deep.
Members(S) == UNION {ToSet(o.members) : o \in S \ {NoObject}}
Parts(o) ==
  LET level[n \in 0..MaxDepth] == IF n = 0 THEN {o} ELSE Members(level[n - 1])
  IN UNION {level[n] : n \in 0..MaxDepth}

\* What the server has before the tab saves anything.
InitialObjects ==
  UNION {Parts(o) : o \in (UNION {Range(InitialNames[n]) : n \in Spaces}) \ {NoObject}}

ASSUME TextsAssumption == Blank \notin Texts
ASSUME SpacesAssumption == Home \in Spaces
ASSUME BoundsAssumption ==
  MaxDepth \in Nat \ {0} /\ MaxFetches \in Nat /\ MaxInputs \in Nat
ASSUME TreesAssumption ==
  /\ InitialNames \in [Spaces -> [Labels -> InitialObjects \cup {NoObject}]]
  /\ \A o \in InitialObjects \ {NoObject} : o.members \in Seq(InitialObjects \cup {NoObject})
  /\ Linked \subseteq InitialObjects \ {NoObject}

VARIABLES
  names,     \* the server's name index
  namespace, \* the namespace the tab is in
  caps,      \* objects the tab holds a write capability for: those it has created
  active,    \* capabilityToken
  path,      \* pathStack
  panel,     \* the tree on the left: a collection's members, or <<>> for the name list
  nameList,  \* the names in the tree or behind it
  editor,    \* the text in the editor
  enabled,   \* the Save button
  fetches,   \* objects that descend has asked for
  lists,     \* namespaces whose names loadNamespace has asked for
  save,      \* each call of saveContent
  patient,   \* history: the user has seen each list of names before clicking on
  inputs     \* how often the user has done something

serverVars == <<names, caps>>
viewVars   == <<panel, nameList, editor, enabled>>
spaceVars  == <<namespace, lists, patient>>
vars == <<serverVars, active, path, viewVars, spaceVars, fetches, save, inputs>>

Idle == [pc |-> "idle", content |-> Blank, object |-> NoObject, at |-> 0,
         label |-> NoObject, space |-> Home, token |-> NoCapability,
         start |-> <<>>, from |-> Home, steady |-> FALSE]

Frame(o, l) == [object |-> o, label |-> l, members |-> NoMembers, index |-> 0]

Init ==
  /\ names = InitialNames
  /\ caps = {}
  /\ active = NoCapability
  /\ path = <<>>
  /\ panel = <<>>
  /\ nameList = InitialNames[Home]
  /\ namespace = Home
  /\ lists = {}
  /\ patient = TRUE
  /\ editor = Blank
  /\ enabled = FALSE
  /\ fetches = {}
  /\ save = [s \in Saves |-> Idle]
  /\ inputs = 0

Input == inputs < MaxInputs /\ inputs' = inputs + 1

\* A save is steady as long as the user does nothing, no fetched object arrives
\* and no other save does anything that this one could see.
Disturb(saves) == [s \in Saves |-> [saves[s] EXCEPT !.steady = FALSE]]

-----------------------------------------------------------------------------
(* Navigation.                                                             *)

\* Mutant: the object becomes the active capability although the tab holds none.
DescendWithout(o) ==
  /\ fetches' = fetches \cup {o}
  /\ active' = o
  /\ save' = Disturb(save)
  /\ UNCHANGED serverVars

\* descend: the capability for the object becomes the active one, if there is
\* one, and the object is fetched; either token lets the tab read it.
Descend(o) ==
  /\ fetches' = fetches \cup {o}
  /\ active' = IF o \in caps THEN o ELSE NoCapability
  /\ save' = Disturb(save)
  /\ UNCHANGED serverVars

CanDescend == Cardinality(fetches) < MaxFetches

\* A list of names has been asked for and is not there yet.
Waiting == lists # {} \/ \E s \in Saves : save[s].pc \in {"new list", "list"}

Open(o, l) ==
  /\ Input
  /\ CanDescend
  /\ path' = <<Frame(o, l)>>
  /\ Descend(o)
  /\ patient' = (patient /\ ~Waiting)
  /\ UNCHANGED <<viewVars, namespace, lists>>

SelectName(l) ==
  /\ panel = <<>>
  /\ nameList[l] # NoObject
  /\ Open(nameList[l], l)

\* navigateToHash: the object at the other end of a relation, by its name if it
\* has one in the list.
NavigateToHash(o) ==
  IF \E l \in Labels : nameList[l] = o
    THEN \E l \in Labels : nameList[l] = o /\ Open(o, l)
    ELSE Open(o, Crumb)

\* Mutant: the path stays where it was.
LoadNamespaceOnly(n) ==
  /\ Input
  /\ n \notin lists
  /\ namespace' = n
  /\ lists' = lists \cup {n}
  /\ patient' = (patient /\ ~Waiting)
  /\ save' = Disturb(save)
  /\ UNCHANGED <<serverVars, active, path, viewVars, fetches>>

\* loadNamespace: the tab is in the namespace at once; the tree shows the old
\* names until the new ones arrive.
LoadNamespace(n) ==
  /\ Input
  /\ n \notin lists
  /\ namespace' = n
  /\ lists' = lists \cup {n}
  /\ patient' = (patient /\ ~Waiting)
  /\ path' = <<>>
  /\ editor' = Blank
  /\ enabled' = FALSE
  /\ save' = Disturb(save)
  /\ UNCHANGED <<serverVars, active, panel, nameList, fetches>>

NamesLoaded(n) ==
  /\ n \in lists
  /\ lists' = lists \ {n}
  /\ nameList' = names[n]
  /\ panel' = <<>>
  /\ UNCHANGED <<serverVars, active, path, editor, enabled, namespace, patient, fetches, save, inputs>>

NamesFail(n) ==
  /\ n \in lists
  /\ lists' = lists \ {n}
  /\ patient' = FALSE
  /\ UNCHANGED <<serverVars, active, path, viewVars, namespace, fetches, save, inputs>>

\* A member is pushed on top of whatever frame is last.  With an empty path the
\* handler throws before it has done anything.
SelectMember(i) ==
  /\ Input
  /\ CanDescend
  /\ i \in DOMAIN panel
  /\ panel[i] # NoObject
  /\ Len(path) \in 1..(MaxDepth - 1)
  /\ path' = Append([path EXCEPT ![Len(path)].index = i], Frame(panel[i], NoObject))
  /\ Descend(panel[i])
  /\ UNCHANGED viewVars

\* A crumb further up: that frame's object is fetched again.
NavigateTo(d) ==
  /\ Input
  /\ CanDescend
  /\ d \in 2..(Len(path) - 1)
  /\ path' = SubSeq(path, 1, d)
  /\ Descend(path[d].object)
  /\ UNCHANGED viewVars

\* The first crumb leads back to the list of names.
NavigateToNames ==
  /\ Input
  /\ Len(path) > 1
  /\ path' = <<>>
  /\ panel' = <<>>
  /\ editor' = Blank
  /\ enabled' = FALSE
  /\ save' = Disturb(save)
  /\ UNCHANGED <<serverVars, active, nameList, fetches>>

NewObject ==
  /\ Input
  /\ path' = <<>>
  /\ editor' = Blank
  /\ enabled' = TRUE
  /\ save' = Disturb(save)
  /\ UNCHANGED <<serverVars, active, panel, nameList, fetches>>

\* The answer to a fetch.  A collection's members are attached to the frame
\* that is last by now; a text replaces what is in the editor.
Fetched(o) ==
  /\ o \in fetches
  /\ fetches' = fetches \ {o}
  /\ IF IsCollection(o)
       THEN /\ UNCHANGED <<editor, enabled>>
            /\ IF path = <<>>
                 THEN UNCHANGED <<path, panel>>
                 ELSE /\ path' = [path EXCEPT ![Len(path)].members = o.members]
                      /\ panel' = o.members
       ELSE /\ editor' = o.text
            /\ enabled' = TRUE
            /\ UNCHANGED <<path, panel>>
  /\ save' = Disturb(save)
  /\ UNCHANGED <<serverVars, active, nameList, inputs>>

FetchFails(o) ==
  /\ o \in fetches
  /\ fetches' = fetches \ {o}
  /\ UNCHANGED <<serverVars, active, path, viewVars, save, inputs>>

Type(t) ==
  /\ Input
  /\ editor # t
  /\ editor' = t
  /\ enabled' = TRUE
  /\ UNCHANGED <<serverVars, active, path, panel, nameList, fetches, save>>

-----------------------------------------------------------------------------
(* saveContent.                                                            *)

\* The button is disabled until the save ends, but a fetched text or typing
\* enables it again.
Press(s) ==
  /\ enabled
  /\ save[s].pc = "idle"
  /\ Input
  /\ enabled' = FALSE
  /\ save' = [Disturb(save) EXCEPT ![s] =
       [Idle EXCEPT !.pc = "stash", !.content = editor, !.object = Text(editor),
                    !.start = path, !.from = namespace,
                    !.steady = (fetches = {} /\ \A r \in Saves : save[r].pc = "idle")]]
  /\ UNCHANGED <<serverVars, active, path, panel, nameList, editor, fetches>>

\* The call is over (the finally block).
Ends(s) ==
  /\ save' = [Disturb(save) EXCEPT ![s] = Idle]
  /\ enabled' = TRUE

\* A collection with o as member k; k = 0 stands for a null index, which sets a
\* property that is not part of the JSON.
Updated(m, k, o) ==
  [j \in 1..(IF k > Len(m) THEN k ELSE Len(m)) |->
     IF j = k THEN o ELSE IF j <= Len(m) THEN m[j] ELSE NoObject]

\* The request for the copy of frame j.
PostCollection(s, o, j) ==
  /\ j >= 2
  /\ IF j <= Len(path) /\ path[j].members # NoMembers
       THEN /\ save' = [save EXCEPT ![s].pc = "collection", ![s].at = j,
                           ![s].object = Collection(Updated(path[j].members, path[j].index, o))]
            /\ UNCHANGED <<enabled, editor>>
       ELSE Ends(s) /\ UNCHANGED editor

\* The request for the name: that of the path's first frame, or one the user is
\* asked for, who may also cancel.
PostName(s, o, j, token) ==
  /\ j < 2
  /\ \/ \E l \in Labels :
          /\ IF path # <<>> THEN l = path[1].label ELSE l # Crumb
          /\ save' = [save EXCEPT ![s].pc = IF path = <<>> THEN "new name" ELSE "name",
                                  ![s].label = l, ![s].space = namespace,
                                  ![s].object = o, ![s].token = token]
          /\ UNCHANGED <<enabled, editor>>
     \/ /\ path = <<>>
        /\ Ends(s)
        /\ editor' = save[s].content

\* Mutant: the answer to /stash is not looked at, and the text may be missing.
StashedUnlooked(s) ==
  /\ save[s].pc = "stash"
  /\ caps' \in {caps, caps \cup {save[s].object}}
  /\ active' = IF save[s].object \in caps' THEN save[s].object ELSE active
  /\ LET j == Len(path) - 1
     IN PostCollection(s, save[s].object, j) \/ PostName(s, save[s].object, j, active')
  /\ UNCHANGED <<names, path, panel, nameList, fetches, inputs>>

\* /stash answered: its capability becomes the active one, and the loop starts
\* at the frame before the last of the path as it is now.
Stashed(s) ==
  /\ save[s].pc = "stash"
  /\ caps' = caps \cup {save[s].object}
  /\ active' = save[s].object
  /\ LET j == Len(path) - 1
     IN PostCollection(s, save[s].object, j) \/ PostName(s, save[s].object, j, active')
  /\ UNCHANGED <<names, path, panel, nameList, fetches, inputs>>

\* /collection answered: its capability is kept but does not become active.
Copied(s) ==
  /\ save[s].pc = "collection"
  /\ caps' = caps \cup {save[s].object}
  /\ LET j == save[s].at - 1
     IN PostCollection(s, save[s].object, j) \/ PostName(s, save[s].object, j, active)
  /\ UNCHANGED <<names, active, path, panel, nameList, fetches, inputs>>

\* Mutant: any capability for writing is enough.
CoversAnything(token, o) == token # NoCapability

\* nameHandler's check: the capability that was sent covers the object.
Covers(token, o) == token = o

\* A request for the names of the namespace the tab is in by now.
PostList(s, pc) ==
  save' = [Disturb(save) EXCEPT ![s] = [save[s] EXCEPT !.pc = pc, !.space = namespace]]

\* The tab shows what it has saved and asks for the list of names.
ShowSaved(s) ==
  /\ PostList(s, "list")
  /\ editor' = save[s].content
  /\ enabled' = TRUE

\* /name answered: 200.  For a new object the list is asked for once more before
\* the tab shows it.
Named(s) ==
  /\ save[s].pc \in {"name", "new name"}
  /\ Covers(save[s].token, save[s].object)
  /\ names' = [names EXCEPT ![save[s].space][save[s].label] = save[s].object]
  /\ IF save[s].pc = "name"
       THEN ShowSaved(s)
       ELSE /\ PostList(s, "new list")
            /\ UNCHANGED <<editor, enabled>>
  /\ UNCHANGED <<caps, active, path, panel, nameList, fetches, inputs>>

\* /name answered: 403.
NotCovered(s) ==
  /\ save[s].pc \in {"name", "new name"}
  /\ ~Covers(save[s].token, save[s].object)
  /\ Ends(s)
  /\ UNCHANGED <<serverVars, active, path, panel, nameList, editor, fetches, inputs>>

NewListed(s) ==
  /\ save[s].pc = "new list"
  /\ nameList' = names[save[s].space]
  /\ ShowSaved(s)
  /\ UNCHANGED <<serverVars, active, path, panel, fetches, inputs>>

\* /names answered: the list of names takes the place of the tree.
Listed(s) ==
  /\ save[s].pc = "list"
  /\ nameList' = names[save[s].space]
  /\ panel' = <<>>
  /\ Ends(s)
  /\ UNCHANGED <<serverVars, active, path, editor, fetches, inputs>>

\* A request fails.
SaveFails(s) ==
  /\ save[s].pc # "idle"
  /\ Ends(s)
  /\ UNCHANGED <<serverVars, active, path, panel, nameList, editor, fetches, inputs>>

Navigate ==
  \/ \E l \in Labels : SelectName(l)
  \/ \E o \in Linked : NavigateToHash(o)
  \/ \E n \in Spaces : LoadNamespace(n) \/ NamesLoaded(n) \/ NamesFail(n)

Browse ==
  \/ \E i \in DOMAIN panel : SelectMember(i)
  \/ \E d \in DOMAIN path : NavigateTo(d)
  \/ NavigateToNames
  \/ NewObject
  \/ \E o \in fetches : Fetched(o) \/ FetchFails(o)
  \/ \E t \in Texts : Type(t)

Answered(s) == Stashed(s) \/ Copied(s) \/ Named(s) \/ NotCovered(s) \/ NewListed(s) \/ Listed(s)

SaveContent == \E s \in Saves : Press(s) \/ Answered(s) \/ SaveFails(s)

Next == Navigate \/ ((Browse \/ SaveContent) /\ UNCHANGED spaceVars)

Spec == Init /\ [][Next]_vars

-----------------------------------------------------------------------------
(* Properties.                                                             *)

Stored == caps \cup InitialObjects

Objects == Stored \cup {NoObject}

TypeOK ==
  /\ names \in [Spaces -> [Labels -> Objects]]
  /\ active \in caps \cup {NoCapability}
  /\ \A i \in DOMAIN path :
       /\ path[i].object \in Stored
       /\ path[i].members # NoMembers => ToSet(path[i].members) \subseteq Objects
  /\ Len(path) <= MaxDepth
  /\ ToSet(panel) \subseteq Objects
  /\ nameList \in [Labels -> Objects]
  /\ editor \in Texts \cup {Blank} \cup {o.text : o \in Stored}
  /\ enabled \in BOOLEAN
  /\ fetches \subseteq Stored
  /\ \A s \in Saves : save[s].pc \in {"idle", "stash", "collection", "name", "new name", "new list", "list"}
  /\ namespace \in Spaces
  /\ lists \subseteq Spaces
  /\ patient \in BOOLEAN
  /\ inputs \in 0..MaxInputs

\* /collection and /name take any hash they are given, so it is the tab that must
\* not break a tree: whatever it copies, from frames that changed under it or
\* not, no collection and no name refers to an object the server does not have.
TreesAreWhole ==
  /\ \A n \in Spaces, l \in Labels : names[n][l] \in Objects
  /\ Members(Stored) \subseteq Objects

\* A save that has set the name, with nothing else happening meanwhile.
Succeeded(s) == save[s].pc \in {"new list", "list"} /\ save[s].steady

\* Without anything else happening meanwhile, a save that succeeds sets the name
\* it was pressed under, in the namespace it was pressed in, and to the text
\* alone: a collection the loop has copied is always refused, because the request
\* carries the capability for the text.
SteadySaveNamesText ==
  \A s \in Saves : Succeeded(s) =>
    /\ names[save[s].from][save[s].label] = Text(save[s].content)
    /\ save[s].start # <<>> => save[s].label = save[s].start[1].label

\* The user is asked before a name comes into being: whatever was clicked while a
\* save was under way, a request for a name that the tab chose by itself is for a
\* name its namespace has.  Two things are excepted: a user who clicks on a name or
\* switches again before the last list of names has arrived (or when it could not
\* be loaded), since the tree shows the names of another namespace until then; and
\* objects without a name that a relation has led to.
UnaskedSaveNamesExisting ==
  patient => \A s \in Saves :
    save[s].pc = "name" /\ save[s].label # Crumb
      => names[save[s].space][save[s].label] # NoObject

\* A path on which each frame's member is the next frame, down to a text.
WellFormed(p) ==
  /\ \A i \in 1..(Len(p) - 1) :
       /\ p[i].members = p[i].object.members
       /\ p[i].index \in DOMAIN p[i].members
       /\ p[i].members[p[i].index] = p[i + 1].object
  /\ ~IsCollection(p[Len(p)].object)

\* "Walk path stack in reverse, creating new Collections at each level with
\* updated child hash. Update the Name at the root to point to the new top-level
\* hash" (docs/Hatcheck Development Summary.md:147).
PathIsCopied ==
  \A s \in Saves :
    LET p == save[s].start
        copy[i \in 1..Len(p)] ==
          IF i = Len(p) THEN Text(save[s].content)
          ELSE Collection(Updated(p[i].members, p[i].index, copy[i + 1]))
    IN Succeeded(s) /\ p # <<>> /\ WellFormed(p) => save[s].object = copy[1]
=============================================================================
