------------------------------- MODULE Settings -------------------------------
(***************************************************************************)
(* The settings in local storage (settingsStore, useAppConfig) and the two *)
(* panels that edit them: providers, personas bound to a provider or to    *)
(* the global model, the migration of the settings of earlier versions,    *)
(* and what a chat request is made with (resolveChatSettings).             *)
(*                                                                         *)
(* A model id is named by the provider it was chosen for.                  *)
(***************************************************************************)
EXTENDS Naturals, SequencesExt, Subsequences

CONSTANTS
    ProviderIds,
    Migrated,       \* the provider made of the settings of an earlier version
    PersonaIds,
    BuiltIn,        \* the personas every installation begins with
    Unset           \* an absent key or an empty text

ASSUME SettingsAssumption ==
    /\ Migrated \in ProviderIds
    /\ BuiltIn \in Seq(PersonaIds) \ {<<>>}
    /\ Unset \notin ProviderIds \cup PersonaIds

VARIABLES
    earlier,        \* legacy keys: [connection : one of them, model : the model's]
    refuses,        \* the browser refuses to write: setItem throws
    keys,           \* local storage: [migrated, seeded, providers, personas,
                    \* active, model, persona]
    binding,        \* persona -> its provider, Unset for the global model
    enabled,        \* persona -> BOOLEAN
    panel,          \* ProvidersPanel: [open, input, editing]
    asked,          \* the provider whose models are being listed
    mixed,          \* history: an operation left the model of one provider
                    \* beside another provider
    gone            \* history: the migrated provider was deleted

settingsVars == <<earlier, refuses, keys, binding, enabled, panel, asked, mixed, gone>>

Closed == [open |-> FALSE, input |-> Unset, editing |-> Unset]

SettingsInit ==
    /\ earlier \in [connection : BOOLEAN, model : BOOLEAN]
    /\ earlier.model => earlier.connection
    /\ refuses \in BOOLEAN
    /\ keys = [migrated |-> FALSE, seeded |-> FALSE, providers |-> <<>>, personas |-> <<>>,
               active |-> Unset, model |-> Unset, persona |-> Unset]
    /\ binding = [p \in PersonaIds |-> Unset]
    /\ enabled = [p \in PersonaIds |-> TRUE]
    /\ panel = Closed
    /\ asked = Unset /\ mixed = FALSE /\ gone = FALSE

-----------------------------------------------------------------------------
(* Reading. *)

\* Mutant: an empty list of providers is one that was never written.
unmigratedEmpty(k) == k.providers = <<>>
\* The key is absent: "[]" is a text like another.
unmigrated(k) == ~k.migrated

\* migrateLegacyConnection
withConnection(k) ==
    IF unmigrated(k) /\ earlier.connection
    THEN [k EXCEPT !.migrated = TRUE, !.providers = <<Migrated>>, !.active = Migrated,
                   !.model = IF earlier.model THEN Migrated ELSE @]
    ELSE k

\* migrateLegacyPersona: the model of an earlier version, or its default, names
\* a persona.
withPersonas(k) ==
    IF k.seeded THEN k
    ELSE [k EXCEPT !.seeded = TRUE, !.personas = BuiltIn, !.persona = Head(BuiltIn)]

\* ensureMigrated, before every read.
migrated == IF refuses THEN keys ELSE withPersonas(withConnection(keys))

\* readProviders and readPersonas.
readProviders(k) == k.providers
readPersonas(k) == IF k.seeded THEN k.personas ELSE BuiltIn

findIn(seq, x) == IF Contains(seq, x) THEN x ELSE Unset
orElse(x, y) == IF x # Unset THEN x ELSE y

\* The provider that requests without a bound one go to.
globalProvider(k) == orElse(findIn(readProviders(k), k.active), readProviders(k)[1])
\* resolveGlobalModel
globalModel(k) == orElse(k.model, globalProvider(k))

\* The persona in use: the chosen one, unless disabled while another is not.
personaInUse(k) ==
    LET chosen == findIn(readPersonas(k), k.persona)
        on == only(readPersonas(k), {p \in PersonaIds : enabled[p]})
    IN  IF chosen # Unset /\ enabled[chosen] THEN chosen
        ELSE IF on # <<>> THEN on[1]
        ELSE orElse(chosen, readPersonas(k)[1])

\* resolveChatSettings: Unset where the application asks for a configuration.
resolved(k) ==
    IF readProviders(k) = <<>> \/ readPersonas(k) = <<>> THEN Unset
    ELSE LET bound == binding[personaInUse(k)]
         IN  IF bound # Unset
             THEN [provider |-> orElse(findIn(readProviders(k), bound), globalProvider(k)),
                   model |-> bound]
             ELSE [provider |-> globalProvider(k), model |-> globalModel(k)]

-----------------------------------------------------------------------------
(* Writing. *)

\* What a refused write leaves: removals still take place.
Stores(k) ==
    keys' = IF ~refuses THEN k
            ELSE [keys EXCEPT !.active = IF k.active = Unset THEN Unset ELSE @,
                              !.model = IF k.model = Unset THEN Unset ELSE @,
                              !.persona = IF k.persona = Unset THEN Unset ELSE @]

\* saveProvider
savedProvider(k, p) ==
    [k EXCEPT !.migrated = TRUE,
              !.providers = IF Contains(@, p) THEN @ ELSE <<p>> \o @,
              !.active = orElse(@, p)]

\* Mutant: the model chosen for the deleted provider stays.
deletedAlone(k, p) ==
    [k EXCEPT !.migrated = TRUE, !.providers = only(@, ProviderIds \ {p}),
              !.active = IF @ = p THEN Unset ELSE @]
\* deleteProvider
deleted(k, p) ==
    [k EXCEPT !.migrated = TRUE, !.providers = only(@, ProviderIds \ {p}),
              !.active = IF @ = p THEN Unset ELSE @,
              !.model = IF k.active = p THEN Unset ELSE @]

\* The model field follows the active provider (the effect on activeProviderId).
shownModel(k) ==
    IF k.model # Unset THEN k.model
    ELSE IF k.providers = <<>> THEN Unset ELSE globalProvider(k)
Follows == panel' = IF panel.open /\ keys'.active # keys.active
                    THEN [panel EXCEPT !.input = shownModel(keys')] ELSE panel

Rest == UNCHANGED <<earlier, refuses>>

-----------------------------------------------------------------------------
(* The pages. *)

\* The settings page opens on the providers, or is left.
OpenPanel ==
    /\ ~panel.open /\ Stores(migrated)
    /\ panel' = [open |-> TRUE, input |-> shownModel(keys'), editing |-> Unset]
    /\ Rest /\ UNCHANGED <<binding, enabled, asked, mixed, gone>>

ClosePanel ==
    /\ panel.open /\ panel' = Closed
    /\ Rest /\ UNCHANGED <<keys, binding, enabled, asked, mixed, gone>>

\* addProvider makes the new provider the active one and keeps the model.
AddProvider(p) ==
    /\ panel.open /\ panel.editing = Unset
    /\ p # Migrated /\ ~Contains(keys.providers, p)
    /\ Stores([savedProvider(migrated, p) EXCEPT !.active = p])
    /\ Follows
    /\ mixed' = (mixed \/ keys'.model \notin {p, Unset})
    /\ Rest /\ UNCHANGED <<binding, enabled, asked, gone>>

StartEdit(p) ==
    /\ panel.open /\ Contains(keys.providers, p)
    /\ panel' = [panel EXCEPT !.editing = p]
    /\ Rest /\ UNCHANGED <<keys, binding, enabled, asked, mixed, gone>>

\* Mutant: the form saves the provider it was opened on.
stillThere(p) == TRUE
\* The provider of the form, deleted meanwhile or not.
toUpdate(p) == Contains(keys.providers, p)

\* handleSubmit of an edited provider.
SubmitEdit ==
    /\ panel.editing # Unset
    /\ IF toUpdate(panel.editing) THEN Stores(savedProvider(migrated, panel.editing))
                                  ELSE UNCHANGED keys
    /\ panel' = [panel EXCEPT !.editing = Unset,
                     !.input = IF keys'.active # keys.active THEN shownModel(keys') ELSE @]
    /\ Rest /\ UNCHANGED <<binding, enabled, asked, mixed, gone>>

\* removeProvider leaves the personas bound to it as they are.
RemoveProvider(p) ==
    /\ panel.open /\ Contains(keys.providers, p)
    /\ Stores(deleted(migrated, p))
    /\ Follows
    /\ mixed' = (mixed \/ \E q \in PersonaIds : binding[q] = p)
    /\ gone' = (gone \/ (p = Migrated /\ ~refuses))
    /\ Rest /\ UNCHANGED <<binding, enabled, asked>>

\* selectGlobalModel
selected(k, p, m) == [k EXCEPT !.active = p, !.model = m]

\* handleGlobalModelChange: another model of the active provider, or none.
ChooseModel(m) ==
    /\ panel.open /\ keys.providers # <<>>
    /\ m \in {globalProvider(keys), Unset}
    /\ Stores(selected(migrated, globalProvider(keys), m))
    /\ panel' = [panel EXCEPT !.input = m]
    /\ Rest /\ UNCHANGED <<binding, enabled, asked, mixed, gone>>

\* handleGlobalProviderChange goes on with the model the field shows.
ChooseProvider(p) ==
    /\ panel.open /\ Contains(keys.providers, p)
    /\ LET m == orElse(panel.input, p) IN
       /\ Stores(selected(migrated, p, m))
       /\ mixed' = (mixed \/ m # p)
    /\ Follows
    /\ Rest /\ UNCHANGED <<binding, enabled, asked, gone>>

\* handleFetchGlobalModels, and its answer, whatever was done in between.
FetchModels ==
    /\ panel.open /\ asked = Unset /\ keys.providers # <<>>
    /\ asked' = globalProvider(keys)
    /\ Rest /\ UNCHANGED <<keys, binding, enabled, panel, mixed, gone>>

ModelsListed ==
    /\ asked # Unset /\ asked' = Unset
    /\ Stores(selected(migrated, asked, asked))
    /\ panel' = IF panel.open THEN [panel EXCEPT !.input = asked] ELSE panel
    /\ mixed' = (mixed \/ ~Contains(keys.providers, asked))
    /\ Rest /\ UNCHANGED <<binding, enabled, gone>>

ModelsNotListed ==
    /\ asked # Unset /\ asked' = Unset
    /\ Rest /\ UNCHANGED <<keys, binding, enabled, panel, mixed, gone>>

\* savePersona: the first persona saved is chosen.
savedPersona(k, q) ==
    [k EXCEPT !.personas = IF Contains(@, q) THEN @ ELSE Append(@, q),
              !.persona = orElse(@, q)]

\* The form of a persona, with the provider it offers, and its switch.
SavePersona(q, bound, on) ==
    /\ bound = Unset \/ Contains(keys.providers, bound)
    /\ Contains(readPersonas(keys), q) \/ ~Contains(BuiltIn, q)
    /\ Stores(savedPersona(migrated, q))
    /\ IF refuses THEN UNCHANGED <<binding, enabled>>
       ELSE /\ binding' = [binding EXCEPT ![q] = bound]
            /\ enabled' = [enabled EXCEPT ![q] = on]
    /\ Rest /\ UNCHANGED <<panel, asked, mixed, gone>>

\* removePersona
RemovePersona(q) ==
    /\ Contains(readPersonas(keys), q)
    /\ Stores([migrated EXCEPT !.personas = only(@, PersonaIds \ {q}),
                               !.persona = IF @ = q THEN Unset ELSE @])
    /\ Rest /\ UNCHANGED <<binding, enabled, panel, asked, mixed, gone>>

\* selectPersona, of the enabled ones.
SelectPersona(q) ==
    /\ Contains(readPersonas(keys), q) /\ enabled[q]
    /\ Stores([migrated EXCEPT !.persona = q])
    /\ Rest /\ UNCHANGED <<binding, enabled, panel, asked, mixed, gone>>

SettingsNext ==
    \/ OpenPanel \/ ClosePanel
    \/ \E p \in ProviderIds : \/ AddProvider(p) \/ StartEdit(p) \/ RemoveProvider(p)
                              \/ ChooseProvider(p)
    \/ SubmitEdit
    \/ \E m \in ProviderIds \cup {Unset} : ChooseModel(m)
    \/ FetchModels \/ ModelsListed \/ ModelsNotListed
    \/ \E q \in PersonaIds, b \in ProviderIds \cup {Unset}, on \in BOOLEAN :
          SavePersona(q, b, on)
    \/ \E q \in PersonaIds : RemovePersona(q) \/ SelectPersona(q)

SettingsSpec == SettingsInit /\ [][SettingsNext]_settingsVars

-----------------------------------------------------------------------------
(* Properties *)

\* A request names a model of the provider it goes to, whatever was deleted,
\* edited or migrated, save where one of the four operations recorded in
\* `mixed` paired them otherwise. (resolveChatSettings, deleteProvider)
RequestFits ==
    LET r == resolved(keys) IN ~mixed /\ r # Unset => r.model = r.provider

\* The settings of an earlier version never bring back the provider made of
\* them once the user has deleted it. (migrateLegacyConnection, handleSubmit)
LegacyStaysGone == gone => ~Contains(readProviders(migrated), Migrated)

\* What is requested and what is kept agree with what the user deleted and bound.
\* (settings.ts, settingsStore.ts)
SettingsSound == RequestFits /\ LegacyStaysGone
=============================================================================
