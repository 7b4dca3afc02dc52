----------------------------- MODULE Providers ------------------------------
(***************************************************************************)
(* The installation's configuration: provider profiles, the credentials    *)
(* that they and the older settings use, and the site cookies, as          *)
(* apps/api/service.py changes them.  Endpoints, prompts and the other     *)
(* values that no property tells apart are left out.                       *)
(*                                                                         *)
(* The handlers of the API run one after the other on its event loop, so   *)
(* that a handler computes all it will write from one state.  It commits   *)
(* each write by itself: todo holds the commits that are still to come,    *)
(* and a kill of the API forgets them.                                     *)
(***************************************************************************)
EXTENDS Naturals, FiniteSets, SequencesExt

CONSTANTS
    Capabilities,   \* what a profile can be used for
    MaxProfiles,    \* bound: profiles that are ever created
    MaxSecrets,     \* bound: credentials that are ever stored
    MaxCookies,     \* bound: cookies that are ever created
    MaxChanges,     \* bound: changes of the configuration and jobs
    MaxKills,       \* bound: kills of a process
    None

ASSUME ProvidersAssumption ==
    /\ {MaxProfiles, MaxSecrets, MaxCookies, MaxChanges, MaxKills}
          \subseteq Nat
    /\ IsFiniteSet(Capabilities) /\ Capabilities \cap Nat = {}
    /\ None \notin {"plain", "default"}

VARIABLES
    profiles,   \* the setting that holds all profiles, a sequence
    made,       \* profiles created so far; their numbers are not used again
    secrets,    \* provider_secrets: the rows by number
    cookies,    \* user_cookies: the rows by number
    todo,       \* the commits of the handler that runs
    changes,    \* changes of the configuration and jobs so far
    up,         \* the API has started
    kills       \* kills of a process so far

providerVars == <<profiles, made, secrets, cookies>>
apiVars == <<todo, changes, up, kills>>

Idle == up /\ todo = <<>>

-----------------------------------------------------------------------------
(* Credentials.                                                            *)

\* A credential belongs to a profile, or, for what was configured before
\* there were profiles, to a capability.
Kinds == Capabilities \cup (1..MaxProfiles)

\* The credential of a kind that is not superseded: there is one at most.
Active(kind) == {n \in DOMAIN secrets : /\ secrets[n].kind = kind
                                        /\ secrets[n].active}
ActiveRef(kind) == IF Active(kind) = {} THEN None
                   ELSE CHOOSE n \in Active(kind) : TRUE

Superseded(kind) ==
    [n \in DOMAIN secrets |->
        IF secrets[n].kind = kind THEN [secrets[n] EXCEPT !.active = FALSE]
                                  ELSE secrets[n]]

\* Mutant of Resolve: a superseded credential is no longer found.
ResolveActive(ref, kind) == IF ref \in Active(kind) THEN ref ELSE None

\* get_provider_secret: by number and kind, superseded or not.
Resolve(ref, kind) ==
    IF ref \in DOMAIN secrets /\ secrets[ref].kind = kind THEN ref ELSE None

-----------------------------------------------------------------------------
(* Commits.                                                                *)

PutSecret(kind) == [put |-> "secret", kind |-> kind]
PutClear(kind) == [put |-> "clear", kind |-> kind]
PutProfiles(ps) == [put |-> "profiles", list |-> ps]

\* create_provider_secret supersedes and inserts in one transaction.
CommitSecret(w) ==
    /\ w.put = "secret"
    /\ secrets' = Append(Superseded(w.kind), [kind |-> w.kind, active |-> TRUE])
    /\ UNCHANGED <<profiles, made, cookies>>

CommitClear(w) ==
    /\ w.put = "clear"
    /\ secrets' = Superseded(w.kind)
    /\ UNCHANGED <<profiles, made, cookies>>

CommitProfiles(w) ==
    /\ w.put = "profiles"
    /\ profiles' = w.list
    /\ UNCHANGED <<secrets, made, cookies>>

CommitCookies(w) ==
    /\ w.put = "cookies"
    /\ cookies' = w.rows
    /\ UNCHANGED <<profiles, made, secrets>>

CommitConfig(w) == \/ CommitSecret(w) \/ CommitClear(w) \/ CommitProfiles(w)
                   \/ CommitCookies(w)

-----------------------------------------------------------------------------
(* Profiles.                                                               *)

Uses(ps, cap) == {i \in DOMAIN ps : ps[i].cap = cap}

\* _clear_profile_default.
WithoutDefault(ps, cap) ==
    [i \in DOMAIN ps |-> IF ps[i].cap = cap
                         THEN [ps[i] EXCEPT !.default = FALSE] ELSE ps[i]]

\* Mutant of WithDefault: the default may be lost.
AsTheyAre(ps, cap) == ps

\* _ensure_profile_default: the first of a capability if none is.
WithDefault(ps, cap) ==
    LET first == CHOOSE i \in Uses(ps, cap) : \A j \in Uses(ps, cap) : i <= j
    IN  IF Uses(ps, cap) = {} \/ \E i \in Uses(ps, cap) : ps[i].default
        THEN ps ELSE [ps EXCEPT ![first].default = TRUE]

\* Mutant of NewId: profiles are numbered by their count.
IdByCount == Len(profiles) + 1

\* A profile's identifier is not used again.
NewId == made + 1

\* create_provider_profile.
CreateProfile ==
    /\ Idle
    /\ made < MaxProfiles
    /\ made' = made + 1
    /\ \E cap \in Capabilities, wanted, credential \in BOOLEAN :
       LET new == [id |-> NewId, cap |-> cap, kind |-> NewId,
                   default |-> wanted \/ Uses(profiles, cap) = {}]
           others == IF new.default THEN WithoutDefault(profiles, cap)
                                    ELSE profiles
       IN  /\ credential => Len(secrets) < MaxSecrets
           /\ todo' = (IF credential THEN <<PutSecret(new.kind)>> ELSE <<>>)
                         \o <<PutProfiles(Append(others, new))>>
    /\ UNCHANGED <<profiles, secrets, cookies, up, kills>>

\* The profile as patched; a new credential makes it the owner of its kind.
Patched(p, default, credential) ==
    [p EXCEPT !.default = default,
              !.kind = IF credential = "new" THEN p.id ELSE @]

\* patch_provider_profile: the credential is stored, or the one of the kind it
\* had is cleared, before the profile is.
PatchProfile ==
    /\ Idle
    /\ \E i \in DOMAIN profiles, default \in BOOLEAN :
       \E credential \in {"keep", "new", "clear"} :
       LET p == Patched(profiles[i], default, credential)
           others == IF p.default THEN WithoutDefault(profiles, p.cap)
                                  ELSE profiles
       IN  /\ credential = "new" => Len(secrets) < MaxSecrets
           /\ todo' = (CASE credential = "keep"  -> <<>>
                         [] credential = "new"   -> <<PutSecret(p.kind)>>
                         [] credential = "clear" -> <<PutClear(p.kind)>>)
                         \o <<PutProfiles(WithDefault([others EXCEPT ![i] = p],
                                                      p.cap))>>
    /\ UNCHANGED <<providerVars, up, kills>>

\* delete_provider_profile.
DeleteProfile ==
    /\ Idle
    /\ \E i \in DOMAIN profiles :
       LET p == profiles[i]
       IN  todo' = <<PutClear(p.kind),
                     PutProfiles(WithDefault(RemoveAt(profiles, i), p.cap))>>
    /\ UNCHANGED <<providerVars, up, kills>>

-----------------------------------------------------------------------------
(* Settings and cookies.                                                   *)

\* patch_system_settings, of which the credential is kept here: it is stored
\* after the sixteen values that go with it.
PatchSettings ==
    /\ Idle
    /\ \E cap \in Capabilities :
          \/ todo' = <<PutSecret(cap)>> /\ Len(secrets) < MaxSecrets
          \/ todo' = <<PutClear(cap)>>
    /\ UNCHANGED <<providerVars, up, kills>>

PutCookies(rows) == [put |-> "cookies", rows |-> rows]
Stored(n) == cookies[n] # None

\* clear_default_cookie_for_user.
NoDefault == [n \in DOMAIN cookies |-> IF Stored(n) THEN "plain" ELSE None]

\* The rows before one of them is written: without a default if it will be.
Demoted(default) == IF default THEN NoDefault ELSE cookies
Demotion(default) == IF default THEN <<PutCookies(NoDefault)>> ELSE <<>>

Flag(default) == IF default THEN "default" ELSE "plain"

\* create_cookie.
CreateCookie ==
    /\ Idle
    /\ Len(cookies) < MaxCookies
    /\ \E default \in BOOLEAN :
          todo' = Demotion(default)
                     \o <<PutCookies(Append(Demoted(default), Flag(default)))>>
    /\ UNCHANGED <<providerVars, up, kills>>

\* patch_cookie.
PatchCookie ==
    /\ Idle
    /\ \E n \in {m \in DOMAIN cookies : Stored(m)}, default \in BOOLEAN :
          todo' = Demotion(default)
                     \o <<PutCookies([Demoted(default) EXCEPT
                                         ![n] = Flag(default)])>>
    /\ UNCHANGED <<providerVars, up, kills>>

\* delete_cookie.
DeleteCookie ==
    /\ Idle
    /\ \E n \in {m \in DOMAIN cookies : Stored(m)} :
          todo' = <<PutCookies([cookies EXCEPT ![n] = None])>>
    /\ UNCHANGED <<providerVars, up, kills>>

-----------------------------------------------------------------------------
(* Start and kill of the API.                                              *)

\* A configuration from before there were profiles is migrated once.
Migrated(cap) == [id |-> cap, cap |-> cap, kind |-> cap, default |-> TRUE]

\* _initialize_provider_profiles_once, before any request is served: what
\* migrates is what has an endpoint, a model and, except for ASR, a credential.
StartApi ==
    /\ ~up
    /\ up' = TRUE
    /\ IF profiles # None
       THEN UNCHANGED profiles
       ELSE \E configured \in SUBSET Capabilities :
               LET caps == SetToSeq(configured)
               IN  profiles' = [i \in DOMAIN caps |-> Migrated(caps[i])]
    /\ UNCHANGED <<made, secrets, cookies, todo, changes, kills>>

KillApi ==
    /\ up
    /\ kills < MaxKills
    /\ kills' = kills + 1
    /\ up' = FALSE
    /\ todo' = <<>>
    /\ UNCHANGED <<providerVars, changes>>

\* Before the first start: some of the older settings have a credential.
ProvidersInit ==
    /\ profiles = None
    /\ made = 0
    /\ \E caps \in SUBSET Capabilities :
          secrets = [i \in DOMAIN SetToSeq(caps) |->
                        [kind |-> SetToSeq(caps)[i], active |-> TRUE]]
    /\ cookies = <<>>
    /\ todo = <<>>
    /\ changes = 0
    /\ up = FALSE
    /\ kills = 0

Configure ==
    /\ changes < MaxChanges
    /\ changes' = changes + 1
    /\ \/ CreateProfile \/ PatchProfile \/ DeleteProfile
       \/ PatchSettings \/ CreateCookie \/ PatchCookie \/ DeleteCookie

-----------------------------------------------------------------------------
(* Properties.                                                             *)

\* Whatever is created, patched, deleted, migrated or cut off by a kill, a
\* capability that has profiles has exactly one default (apps/api/
\* service.py:1459, 1467), a kind has one credential at most, and there is
\* at most one default cookie (service.py:846, 877).
OneDefaultEach ==
    /\ profiles # None =>
          \A cap \in Capabilities :
             Uses(profiles, cap) # {} =>
                Cardinality({i \in Uses(profiles, cap) :
                                profiles[i].default}) = 1
    /\ \A kind \in Kinds : Cardinality(Active(kind)) <= 1
    /\ Cardinality({n \in DOMAIN cookies : cookies[n] = "default"}) <= 1
=============================================================================
