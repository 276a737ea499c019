----------------------------- MODULE VisionHelper -----------------------------
(***************************************************************************)
(* One call of pi-vision-helper: the configuration is read, a backend and  *)
(* a model are chosen from it and from pi's own registry of models, and    *)
(* the images are sent there with the key that was found.                  *)
(*                                                                         *)
(* Names are matched fuzzily, by substring in either direction.            *)
(***************************************************************************)
EXTENDS Names

CONSTANTS
    Luna,           \* the default model is any whose id has this in it
    ConfigHost,     \* a base URL, or a key, given in the configuration
    Gateway         \* the base URL of a registry entry that has none itself

VARIABLES
    setting,        \* the file of settings, as it was written
    store,          \* models-store.json: a sequence of providers
    keys,           \* the providers auth.json has a key of
    mainSees,       \* the agent's own model sees images
    visionCall,     \* where the call is
    backend         \* what it sends to, or NoBackend

visionVars == <<setting, store, keys, mainSees, visionCall, backend>>

NoBackend == [model |-> Missing, provider |-> Missing, host |-> Missing, key |-> Missing]

-----------------------------------------------------------------------------
(* registry.ts *)

\* Mutant: the first candidate stands in for a name that matches none.
PickMutant(n, names, I) ==
    LET Exact == {i \in I : names[i] = n}
        Longer == {i \in I : Within(n, names[i])}
    IN FirstAt(names, Preferred(Exact, Preferred(Longer, I)))

\* fuzzyPick, of the names at some places: an equal name, else one that has n in it, else
\* one that is in n.
Pick(n, names, I) ==
    LET Exact == {i \in I : names[i] = n}
        Longer == {i \in I : Within(n, names[i])}
        Shorter == {i \in I : Within(names[i], n)}
    IN FirstAt(names, Preferred(Exact, Preferred(Longer, Shorter)))

\* isVisionCapable: a model that does not say what it takes counts as capable.
Capable(m) == m.sees # "no"
Seeing(models) == {i \in 1..Len(models) : Capable(models[i])}

Ids(models) == [i \in 1..Len(models) |-> models[i].id]
ProviderIds == [i \in 1..Len(store) |-> store[i].id]

ModelsOf(p) ==
    LET ofIt == {i \in 1..Len(store) : store[i].id = p}
    IN IF ofIt = {} THEN <<>> ELSE store[Least(ofIt)].models

Lunas(models) == {i \in Seeing(models) : Within(Luna, models[i].id)}
DefaultModel(models) == FirstAt(Ids(models), Preferred(Lunas(models), Seeing(models)))

-----------------------------------------------------------------------------
(* config.ts *)

\* loadConfig: the flat fields of old count only where there is no vision block.
Flat == IF setting.block \/ setting.models # <<>> THEN {} ELSE setting.flat

\* A key written down, or the value of a variable; "unset" is one that is not there.
Given(key) == key \in {"literal", "env"}

-----------------------------------------------------------------------------
(* vision.ts: resolveTarget.  A choice that fails is NoBackend. *)

Backend(model, provider, host, key) ==
    IF Missing \in {model, key} THEN NoBackend
    ELSE [model |-> model, provider |-> provider, host |-> host, key |-> key]

StoredKey(p) == IF p \in keys THEN p ELSE Missing

\* The base URL is the model's own, the provider's or the gateway's.
HostOf(p, model) ==
    LET models == ModelsOf(p)
        found == {i \in 1..Len(models) : models[i].id = model}
    IN IF found # {} /\ models[Least(found)].url THEN p ELSE Gateway

\* resolveRegistryEntry: a provider that was named must match; the models that can see
\* are preferred.  An API key or base URL of the entry is not looked at.
Registry(e) ==
    LET all == 1..Len(store)
        p == IF e.provider # Missing THEN Pick(e.provider, ProviderIds, all) ELSE FirstAt(ProviderIds, all)
        models == ModelsOf(p)
        model == IF e.model = Missing THEN DefaultModel(models)
                 ELSE Pick(e.model, Ids(models), Preferred(Seeing(models), 1..Len(models)))
    IN Backend(model, p, HostOf(p, model), StoredKey(p))

\* resolveResponsesEntry: everything is written in the entry.
Responses(e) ==
    IF e.url /\ Given(e.key) THEN Backend(e.model, Missing, ConfigHost, ConfigHost) ELSE NoBackend

\* resolveLegacy: a provider must be named exactly, and a model must be in its list even
\* if URL and key are the user's own.
Legacy(f) ==
    LET p == IF f.provider # Missing THEN f.provider ELSE FirstAt(ProviderIds, 1..Len(store))
        models == ModelsOf(p)
        all == 1..Len(models)
        model == IF f.model = Missing THEN DefaultModel(models)
                 ELSE Pick(f.model, Ids(models), IF f.substring THEN all ELSE Preferred(Seeing(models), all))
        key == IF f.key = "none" THEN StoredKey(p) ELSE IF Given(f.key) THEN ConfigHost ELSE Missing
    IN IF \E i \in 1..Len(store) : store[i].id = p
       THEN Backend(model, p, IF f.url THEN ConfigHost ELSE HostOf(p, model), key) ELSE NoBackend

\* resolveDefaultLuna: the first provider that has the model, with its key or not at all.
DefaultLuna ==
    LET having == {i \in 1..Len(store) : Lunas(store[i].models) # {}}
        first == store[Least(having)]
        model == first.models[Least(Lunas(first.models))].id
    IN IF having = {} THEN NoBackend ELSE Backend(model, first.id, HostOf(first.id, model), StoredKey(first.id))

\* The entries that may be the active one: that of the name, or any.
Active == {i \in 1..Len(setting.models) : setting.active \in {Missing, setting.models[i].name}}

ResolveTarget ==
    LET entry == setting.models[Least(Active)]
    IN IF Active # {} THEN IF entry.registry THEN Registry(entry) ELSE Responses(entry)
       ELSE IF setting.models # <<>> THEN NoBackend
       ELSE IF Flat # {} THEN Legacy(CHOOSE f \in Flat : TRUE)
       ELSE DefaultLuna

-----------------------------------------------------------------------------
(* The tool. *)

\* Settings that switch the tool off end the call; so does an agent that sees images
\* itself, unless the bridge is forced.
Refuse ==
    /\ visionCall = "called"
    /\ ~setting.enabled \/ (mainSees /\ ~setting.force)
    /\ visionCall' = "refused"
    /\ UNCHANGED <<setting, store, keys, mainSees, backend>>

Send ==
    /\ visionCall = "called"
    /\ setting.enabled /\ (mainSees => setting.force)
    /\ backend' = ResolveTarget
    /\ visionCall' = IF ResolveTarget = NoBackend THEN "failed" ELSE "sent"
    /\ UNCHANGED <<setting, store, keys, mainSees>>

\* runVision: text in the answer, or an error, the time limit, or the user's escape.
Receive ==
    /\ visionCall = "sent"
    /\ visionCall' \in {"answered", "failed", "cancelled"}
    /\ UNCHANGED <<setting, store, keys, mainSees, backend>>

VisionNext == Refuse \/ Send \/ Receive

-----------------------------------------------------------------------------

Related(a, b) == Within(a, b) \/ Within(b, a)

\* The names that were asked for, in a form both kinds of settings share.
Asked ==
    IF Active # {} THEN setting.models[Least(Active)]
    ELSE IF Flat # {} THEN CHOOSE f \in Flat : TRUE ELSE [provider |-> Missing, model |-> Missing]

\* Images go to no backend the settings did not mean: the provider and the model have to
\* do with the names that were asked for, and one that has exactly that name is taken.
NoStrangers ==
    visionCall = "sent" /\ backend.provider # Missing =>
        /\ Related(Asked.provider, backend.provider) /\ Related(Asked.model, backend.model)
        /\ (\E i \in 1..Len(store) : store[i].id = Asked.provider) => backend.provider = Asked.provider

\* A model that is known not to see images gets them only where the provider has none
\* that does, or the old settings ask for any name.
SeesImages ==
    visionCall = "sent" /\ backend.provider # Missing /\ (\A f \in Flat : ~f.substring) =>
        LET models == ModelsOf(backend.provider)
        IN \/ \E i \in 1..Len(models) : models[i].id = backend.model /\ Capable(models[i])
           \/ \A i \in 1..Len(models) : ~Capable(models[i])

\* Images go only where the settings meant them to go, and to a model that sees them.
ImagesGoWhereMeant == NoStrangers /\ SeesImages

=============================================================================
