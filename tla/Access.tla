------------------------------- MODULE Access -------------------------------
(***************************************************************************)
(* Who may have a job made: users, their projects, plans and API keys, the *)
(* console's sessions whose requests change them, and a request for a job  *)
(* from its bearer token to its reservation.  A request keeps the principal*)
(* it was given when it came in; between that and the reservation its body *)
(* and its media are read, and administrators go on.                       *)
(***************************************************************************)
EXTENDS Naturals, FiniteSets

CONSTANTS
  User, Project, Plan, Key,
  OwnerOf,    \* the user of a project
  ProjectOfKey,
  LegacyPlan, \* plan_legacy, which is there from the start
  Caller,     \* requests for a job
  Console     \* the console's sessions

VARIABLES
  user,       \* users.status
  project,    \* projects: status, plan_id
  plan,       \* plans.enabled
  key,        \* api_keys
  console,    \* AdminSessionStore: the sessions that are open
  visits,     \* console requests that passed the hook
  caller      \* requests for a job and their principals

VARIABLES  \* history
  buried,     \* keys that have been revoked
  admitted    \* how it stood with each job's key and owner

registryVars == <<user, project, plan, key>>
accessVars == <<registryVars, console, visits, caller, buried, admitted>>

ASSUME AccessAssumption ==
  /\ OwnerOf \in [Project -> User] /\ ProjectOfKey \in [Key -> Project]
  /\ LegacyPlan \in Plan /\ Key # {}

-----------------------------------------------------------------------------

Status  == {"absent", "active", "suspended"}
KeyRow  == [made : BOOLEAN, enabled : BOOLEAN, revoked : BOOLEAN,
            expired : BOOLEAN, scoped : BOOLEAN]
NoKeyRow == [made |-> FALSE, enabled |-> FALSE, revoked |-> FALSE,
             expired |-> FALSE, scoped |-> FALSE]

\* late: had the key been revoked when the request came in?
CallerState == [pc : {"out", "reading", "scoped", "reserving"}, key : Key,
                scoped : BOOLEAN, late : BOOLEAN]

AccessTypeOK ==
  /\ user \in [User -> Status]
  /\ project \in [Project -> [status : Status, plan : Plan]]
  /\ plan \in [Plan -> {"absent", "enabled", "disabled"}]
  /\ key \in [Key -> KeyRow]
  /\ console \subseteq Console
  /\ visits \subseteq Console
  /\ caller \in [Caller -> CallerState]
  /\ buried \subseteq Key
  /\ admitted \subseteq [late : BOOLEAN, active : BOOLEAN]

NoCaller == [pc |-> "out", key |-> CHOOSE k \in Key : TRUE, scoped |-> FALSE,
             late |-> FALSE]

AccessInit ==
  /\ user = [u \in User |-> "absent"]
  /\ project = [p \in Project |-> [status |-> "absent", plan |-> LegacyPlan]]
  /\ plan = [l \in Plan |-> IF l = LegacyPlan THEN "enabled" ELSE "absent"]
  /\ key = [k \in Key |-> NoKeyRow]
  /\ console = {} /\ visits = {}
  /\ caller = [c \in Caller |-> NoCaller]
  /\ buried = {} /\ admitted = {}

\* activeBinding
Binding(p) == project[p].status = "active" /\ user[OwnerOf[p]] = "active"

-----------------------------------------------------------------------------
(* Sessions of the console. *)

ConsoleLogin(s) ==
  /\ s \notin console
  /\ console' = console \cup {s}
  /\ UNCHANGED <<registryVars, visits, caller, buried, admitted>>

\* Logged out, or pruned when its time is up.
SessionEnds(s) ==
  /\ s \in console
  /\ console' = console \ {s}
  /\ UNCHANGED <<registryVars, visits, caller, buried, admitted>>

\* The hook of /admin/api: the session and its CSRF token.  The body follows.
Visit(s) ==
  /\ s \in console /\ s \notin visits
  /\ visits' = visits \cup {s}
  /\ UNCHANGED <<registryVars, console, caller, buried, admitted>>

\* A handler runs to its end without a pause; it may refuse.
Handled(s) == s \in visits /\ visits' = visits \ {s}

Refused(s) ==
  /\ Handled(s)
  /\ UNCHANGED <<registryVars, console, caller, buried, admitted>>

CreateUser(s, u) ==
  /\ Handled(s) /\ user[u] = "absent"
  /\ user' = [user EXCEPT ![u] = "active"]
  /\ UNCHANGED <<project, plan, key, console, caller, buried, admitted>>

SetUserStatus(s, u) ==
  /\ Handled(s) /\ user[u] # "absent"
  /\ \E status \in {"active", "suspended"} : user' = [user EXCEPT ![u] = status]
  /\ UNCHANGED <<project, plan, key, console, caller, buried, admitted>>

CreateProject(s, p) ==
  /\ Handled(s) /\ project[p].status = "absent" /\ user[OwnerOf[p]] = "active"
  /\ project' = [project EXCEPT ![p] = [status |-> "active", plan |-> LegacyPlan]]
  /\ UNCHANGED <<user, plan, key, console, caller, buried, admitted>>

SetProjectStatus(s, p) ==
  /\ Handled(s) /\ project[p].status # "absent"
  /\ \E status \in {"active", "suspended"} :
       project' = [project EXCEPT ![p].status = status]
  /\ UNCHANGED <<user, plan, key, console, caller, buried, admitted>>

\* A plan is made enabled or disabled, and stays so.
CreatePlan(s, l) ==
  /\ Handled(s) /\ plan[l] = "absent"
  /\ plan' \in {[plan EXCEPT ![l] = "enabled"], [plan EXCEPT ![l] = "disabled"]}
  /\ UNCHANGED <<user, project, key, console, caller, buried, admitted>>

AssignPlan(s, p) ==
  /\ Handled(s) /\ project[p].status # "absent"
  /\ \E l \in Plan : /\ plan[l] = "enabled"
                     /\ project' = [project EXCEPT ![p].plan = l]
  /\ UNCHANGED <<user, plan, key, console, caller, buried, admitted>>

NewKey(scoped) == [NoKeyRow EXCEPT !.made = TRUE, !.enabled = TRUE,
                                   !.scoped = scoped]

CreateKey(s, k) ==
  /\ Handled(s) /\ ~key[k].made /\ Binding(ProjectOfKey[k])
  /\ \E scoped \in BOOLEAN :
       key' = [key EXCEPT ![k] = NewKey(scoped)]
  /\ UNCHANGED <<user, project, plan, console, caller, buried, admitted>>

\* enable and disable, which refuse a revoked key
UpdateKey(s, k) ==
  /\ Handled(s) /\ key[k].made /\ ~key[k].revoked
  /\ \E on \in BOOLEAN : key' = [key EXCEPT ![k].enabled = on]
  /\ UNCHANGED <<user, project, plan, console, caller, buried, admitted>>

RevokeKey(s, k) ==
  /\ Handled(s) /\ key[k].made /\ ~key[k].revoked
  /\ key' = [key EXCEPT ![k].revoked = TRUE]
  /\ buried' = buried \cup {k}
  /\ UNCHANGED <<user, project, plan, console, caller, admitted>>

KeyExpires(k) ==
  /\ key[k].made /\ ~key[k].expired
  /\ key' = [key EXCEPT ![k].expired = TRUE]
  /\ UNCHANGED <<user, project, plan, console, visits, caller, buried,
                 admitted>>

-----------------------------------------------------------------------------
(* Requests for a job. *)

\* Mutant: the revocation is not looked at.
AuthenticRevoked(k) ==
  key[k].made /\ key[k].enabled /\ ~key[k].expired /\ Binding(ProjectOfKey[k])

Authentic(k) ==
  /\ key[k].made /\ key[k].enabled /\ ~key[k].revoked /\ ~key[k].expired
  /\ Binding(ProjectOfKey[k])

\* The hook of /v1 binds the principal, with the scopes the key has now.
Authenticate(c, k) ==
  /\ caller[c].pc = "out" /\ Authentic(k)
  /\ caller' = [caller EXCEPT ![c] = [pc |-> "reading", key |-> k,
                  scoped |-> key[k].scoped, late |-> k \in buried]]
  /\ UNCHANGED <<registryVars, console, visits, buried, admitted>>

Leaves(c) ==
  /\ caller[c].pc # "out"
  /\ caller' = [caller EXCEPT ![c] = NoCaller]
  /\ UNCHANGED <<registryVars, console, visits, buried, admitted>>

OwnProject(c) == ProjectOfKey[caller[c].key]
PlanIsOn(p)   == plan[project[p].plan] = "enabled"

\* The body has been read.  A video goes on to its plan, an image does not.
RequireScope(c) ==
  /\ caller[c].pc = "reading" /\ caller[c].scoped
  /\ \E pc \in {"scoped", "reserving"} : caller' = [caller EXCEPT ![c].pc = pc]
  /\ UNCHANGED <<registryVars, console, visits, buried, admitted>>

AssertVideo(c) ==
  /\ caller[c].pc = "scoped"
  /\ project[OwnProject(c)].status = "active" /\ PlanIsOn(OwnProject(c))
  /\ caller' = [caller EXCEPT ![c].pc = "reserving"]
  /\ UNCHANGED <<registryVars, console, visits, buried, admitted>>

\* reserveOrGet makes the job, for an owner who is active now.  The key is not
\* looked at again.
Reserve(c) ==
  LET p == OwnProject(c)
  IN /\ caller[c].pc = "reserving"
     /\ Binding(p) /\ PlanIsOn(p)
     /\ admitted' = admitted \cup
          {[late |-> caller[c].late,
            active |-> user[OwnerOf[p]] = "active" /\ project[p].status = "active"]}
     /\ caller' = [caller EXCEPT ![c] = NoCaller]
     /\ UNCHANGED <<registryVars, console, visits, buried>>

AccessNext ==
  \/ \E s \in Console :
       \/ ConsoleLogin(s) \/ SessionEnds(s) \/ Visit(s) \/ Refused(s)
       \/ \E u \in User : CreateUser(s, u) \/ SetUserStatus(s, u)
       \/ \E p \in Project :
            CreateProject(s, p) \/ SetProjectStatus(s, p) \/ AssignPlan(s, p)
       \/ \E l \in Plan : CreatePlan(s, l)
       \/ \E k \in Key : CreateKey(s, k) \/ UpdateKey(s, k) \/ RevokeKey(s, k)
  \/ \E k \in Key : KeyExpires(k)
  \/ \E c \in Caller :
       \/ Leaves(c) \/ RequireScope(c) \/ AssertVideo(c) \/ Reserve(c)
       \/ \E k \in Key : Authenticate(c, k)

AccessSpec == AccessInit /\ [][AccessNext]_accessVars

-----------------------------------------------------------------------------

\* However keys are disabled and enabled, and owners suspended and made active
\* again, while requests are under way: no job is made by a request that came in
\* after its key was revoked, and none for an owner who is suspended just then.
JobsOfActiveOwners == \A job \in admitted : job.active /\ ~job.late
=============================================================================
