---------------------------- MODULE ModelComposer ----------------------------
(***************************************************************************)
(* The composition of a model: resources are added, removed and copied on  *)
(* one screen and given their parameters on another                        *)
(* (core/model/composition.py, app/services/model_composer.py,             *)
(* app/routers/models.py, app/routers/ui_forms.py).  The service keeps one *)
(* composition in memory; every handler reads it, makes a new one and puts *)
(* that in its place, in a thread of its own and without a lock.           *)
(***************************************************************************)
EXTENDS Integers, Sequences, SequencesExt, FiniteSets

CONSTANTS
  Composers,    \* users, each with one request at a time
  DemoModel,    \* the composition the first screen registers: tag, name, size
  KnownTags,    \* available_resource_tags
  Additions,    \* tags and names given to new resources
  CopyNames,    \* names given to copies; "" is the empty field
  Submissions,  \* by place in the drawn form: a number, None for an empty field
  Unbuildable,  \* numbers a resource refuses to be built with
  MaxWrites,    \* bound: compositions registered
  None

VARIABLES
  model,    \* the composition that is kept, or None
  users,    \* by user: step, the composition read, what is asked, the result
  history   \* every registration: who asked what, after how many others it had read

composerVars == <<model, users, history>>

(***************************************************************************)
(* Editing.  A resource without a name makes every operation fail that     *)
(* lists the names, and all of them do.                                    *)
(***************************************************************************)
Instances == [tag : STRING, name : STRING, size : Int \cup {None}]
IsComposition(config) ==
  config \in Seq(Instances) /\ \A i, j \in DOMAIN config : config[i].name = config[j].name => i = j

NamesOf(config) == {config[i].name : i \in DOMAIN config}
ResourceNames(config) == "" \notin NamesOf(config)
SourceOf(config, name) == config[SelectInSeq(config, LAMBDA r : r.name = name)]

AddAccepted(config, r) ==
  r.tag \in KnownTags /\ r.name # "" /\ ResourceNames(config) /\ r.name \notin NamesOf(config)
AddResource(config, r) == Append(config, [tag |-> r.tag, name |-> r.name, size |-> None])

RemoveAccepted(config, r) == ResourceNames(config) /\ r.name \in NamesOf(config)
Without(config, name) ==
  FlattenSeq([i \in DOMAIN config |-> IF config[i].name = name THEN <<>> ELSE <<config[i]>>])
RemoveResource(config, r) == Without(config, r.name)

\* The name of a copy may not be in use; that it is one is not asked.
DuplicateAccepted(config, r) ==
  ResourceNames(config) /\ r.name \in NamesOf(config) /\ r.copy \notin NamesOf(config)
DuplicateResource(config, r) ==
  FlattenSeq([i \in DOMAIN config |->
                IF config[i].name = r.name
                THEN <<config[i], [SourceOf(config, r.name) EXCEPT !.name = r.copy]>>
                ELSE <<config[i]>>])

(***************************************************************************)
(* The form of all parameters: its fields are numbered by the place of     *)
(* their resource in the demo model, which is what the screen draws; they  *)
(* are read by place in the composition that is kept.  A field that was    *)
(* not sent changes nothing; the resources are built to see whether they   *)
(* can be.                                                                 *)
(***************************************************************************)
Edited(config, r) ==
  [i \in DOMAIN config |->
     IF i \in DOMAIN r.fields THEN [config[i] EXCEPT !.size = r.fields[i]] ELSE config[i]]
Verified(config) == \A i \in DOMAIN config : config[i].size \notin Unbuildable \cup {None}
SettingsAccepted(config, r) ==
  /\ ResourceNames(config)
  /\ \A i \in DOMAIN config \cap DOMAIN r.fields : r.fields[i] # None
  /\ Verified(Edited(config, r))

Accepted(config, r) ==
  CASE r.kind = "add" -> AddAccepted(config, r)
    [] r.kind = "remove" -> RemoveAccepted(config, r)
    [] r.kind = "duplicate" -> DuplicateAccepted(config, r)
    [] r.kind = "set" -> SettingsAccepted(config, r)
Result(config, r) ==
  CASE r.kind = "add" -> AddResource(config, r)
    [] r.kind = "remove" -> RemoveResource(config, r)
    [] r.kind = "duplicate" -> DuplicateResource(config, r)
    [] r.kind = "set" -> Edited(config, r)

EveryName == NamesOf(DemoModel) \cup {r.name : r \in Additions} \cup CopyNames
Asked ==
  [kind : {"remove"}, name : EveryName \ {""}]
    \cup [kind : {"duplicate"}, name : EveryName \ {""}, copy : CopyNames]
    \cup {[kind |-> "add", tag |-> r.tag, name |-> r.name] : r \in Additions}
    \cup [kind : {"set"}, fields : Submissions]

-----------------------------------------------------------------------------
Away == [step |-> "away", seen |-> None, after |-> 0, asked |-> None, result |-> None]
ComposerInit == model = None /\ users = [u \in Composers |-> Away] /\ history = <<>>

Register(u, config, r) ==
  /\ model' = config
  /\ history' = Append(history, [asked |-> r, after |-> users[u].after])
  /\ users' = [users EXCEPT ![u] = Away]

\* composer_config: the demo model is registered by who finds nothing.
OpenScreen(u) ==
  /\ users[u].step = "away" /\ model = None
  /\ users' = [users EXCEPT ![u].step = "nothing found", ![u].after = Len(history)]
  /\ UNCHANGED <<model, history>>
RegisterDemo(u) ==
  /\ users[u].step = "nothing found" /\ Len(history) < MaxWrites
  /\ Register(u, DemoModel, [kind |-> "demo"])

\* _require and the operation: on a composition that stays as it is.
Edit(u, r) ==
  /\ users[u].step = "away" /\ model # None /\ Len(history) < MaxWrites
  /\ Accepted(model, r)
  /\ users' = [users EXCEPT ![u] = [step |-> "edited", seen |-> model, after |-> Len(history),
                                    asked |-> r, result |-> Result(model, r)]]
  /\ UNCHANGED <<model, history>>
RefuseEdit(u, r) ==
  /\ users[u].step = "away"
  /\ IF model = None THEN r.kind # "set" ELSE ~Accepted(model, r)
  /\ UNCHANGED composerVars
RegisterEdit(u) ==
  /\ users[u].step = "edited" /\ Len(history) < MaxWrites
  /\ Register(u, users[u].result, users[u].asked)

ComposerNext ==
  \E u \in Composers :
    \/ OpenScreen(u) \/ RegisterDemo(u) \/ RegisterEdit(u)
    \/ \E r \in Asked : Edit(u, r) \/ RefuseEdit(u, r)

-----------------------------------------------------------------------------
(***************************************************************************)
(* A form reaches the resources it was drawn for and no other: what it     *)
(* changes is one of them, and each of them that is there gets its number. *)
(***************************************************************************)
FormReaches(old, new, r) ==
  /\ \A i \in DOMAIN new : new[i] # old[i] => new[i].name \in {DemoModel[j].name : j \in DOMAIN r.fields}
  /\ \A i \in DOMAIN new, j \in DOMAIN r.fields : new[i].name = DemoModel[j].name => new[i].size = r.fields[j]

\* At every place that was drawn is the resource it was drawn for, or none.
AsDrawn(config) == \A i \in DOMAIN config \cap DOMAIN DemoModel : config[i].name = DemoModel[i].name

(***************************************************************************)
(* However the requests interleave, no two resources share a name          *)
(* (_reject_duplicate_name), so that adding, removing and copying touch    *)
(* one resource and leave the others and their order; a form keeps every   *)
(* name and changes only places it has fields for, and as long as the      *)
(* composition is as drawn it reaches the resources it was drawn for; and  *)
(* what was added or removed stays so unless it is edited again or a       *)
(* request that had read before is registered after it                     *)
(* (ModelCompositionService, composer_config, _submissions).               *)
(***************************************************************************)
NamesIdentify == model # None => Cardinality(NamesOf(model)) = Len(model)

TouchesItsOwn(old, new, r) ==
  CASE r.kind = "remove" -> Len(new) = Len(old) - 1 /\ new = Without(old, r.name)
    [] r.kind = "add" -> Without(new, r.name) = old
    [] r.kind = "duplicate" ->
         /\ Without(new, r.copy) = old /\ Len(new) = Len(old) + 1
         /\ \A i \in DOMAIN new : new[i].name = r.copy =>
              new[i - 1] = SourceOf(old, r.name) /\ new[i].size = new[i - 1].size
    [] r.kind = "set" ->
         /\ \A i \in DOMAIN old : new[i].name = old[i].name /\ (i \notin DOMAIN r.fields => new[i] = old[i])
         /\ AsDrawn(old) => FormReaches(old, new, r)
EditsTouchTheirOwn == \A u \in Composers : users[u].step = "edited" => TouchesItsOwn(users[u].seen, users[u].result, users[u].asked)

GivenBy(r) == IF r.kind = "duplicate" THEN r.copy ELSE IF r.kind = "add" THEN r.name ELSE None
SeenByTheRest(i) == \A j \in i + 1 .. Len(history) : history[j].after >= i
NothingLostAlone ==
  \A i \in DOMAIN history : SeenByTheRest(i) =>
    LET r == history[i].asked
        later == {history[j].asked : j \in i + 1 .. Len(history)} IN
    /\ r.kind \in {"add", "duplicate"} /\ (\A s \in later : s.kind # "remove" \/ s.name # GivenBy(r)) =>
         GivenBy(r) \in NamesOf(model)
    /\ r.kind = "remove" /\ (\A s \in later : GivenBy(s) # r.name) => r.name \notin NamesOf(model)

ComposerKeepsEdits == NamesIdentify /\ EditsTouchTheirOwn /\ NothingLostAlone

=============================================================================
