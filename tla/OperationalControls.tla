-------------------------- MODULE OperationalControls --------------------------
(***************************************************************************)
(* runtime/governance/operational_controls.py: the file by which operators *)
(* switch live execution on and off while the bots run.  It holds two      *)
(* switches and, for each provider and each user, a grant; every entry may *)
(* carry an expiry.  The file is read again at every question.             *)
(*                                                                         *)
(* An expiry is a clock reading, 0 where there is none and 1, which is     *)
(* always past, where the text of it cannot be parsed.                     *)
(***************************************************************************)
EXTENDS Naturals

CONSTANTS
    Providers,      \* the external search providers
    Users,          \* the users with an entry of their own
    MaxExpiry       \* the last clock reading an operator may ask for

Switches == {"cloud_execution", "tavily_execution"}

Expiries == 0 .. MaxExpiry

\* What can be read of one switch, "absent" where the object is missing.
Switch == [state : {"enabled", "disabled", "absent"}, expires : Expiries]

\* What can be read of the grant of one provider or user.
Grant == [state : {"allowed", "blocked", "none"}, expires : Expiries]

\* The file: missing, malformed, or read with these controls in it.
ControlFile ==
    [kind : {"missing", "malformed", "controls"},
     switch : [Switches -> Switch],
     provider_default : {"allowed", "blocked"},
     provider : [Providers -> Grant],
     user_default : {"allowed", "blocked"},
     user : [Users -> Grant]]

\* What the environment of a process says, fixed while it lives.
Environment ==
    [CLOUD_DRY_RUN : BOOLEAN, JUNIPER_DRY_RUN : BOOLEAN, key : BOOLEAN,
     flag : [Switches -> {"unset", "on", "off"}]]

Blocked(source) == [allowed |-> FALSE, source |-> source]

Decide(allowed, source) == [allowed |-> allowed, source |-> source]

ExpiredNever(e, now) == FALSE

Expired(e, now) == e # 0 /\ e <= now

\* Without a file the environment decides, and it says no by default.
BootstrapSwitch(name, env) ==
    IF name = "cloud_execution" /\ env.CLOUD_DRY_RUN
        THEN Blocked("bootstrap_env:CLOUD_DRY_RUN")
    ELSE IF env.flag[name] # "unset"
        THEN Decide(env.flag[name] = "on", "bootstrap_env:flag")
    ELSE Blocked("bootstrap_default_missing_governance")

EvaluateSwitch(name, file, env, now) ==
    LET s == file.switch[name] IN
    CASE file.kind = "missing" -> BootstrapSwitch(name, env)
      [] file.kind = "malformed" -> Blocked("fail_closed")
      [] OTHER ->
            IF s.state = "absent" THEN Blocked("fail_closed")
            ELSE IF Expired(s.expires, now) THEN Blocked("expired_control")
            ELSE Decide(s.state = "enabled", "explicit_governance")

\* Without a file every provider is authorized; an expired grant blocks its
\* provider even where the default would allow it.
EvaluateProvider(p, file, now) ==
    LET g == file.provider[p] IN
    CASE file.kind = "missing" -> Decide(TRUE, "bootstrap_default_missing_governance")
      [] file.kind = "malformed" -> Blocked("fail_closed")
      [] OTHER ->
            IF g.state = "none"
                THEN Decide(file.provider_default = "allowed",
                            "default_provider_authorization")
            ELSE IF Expired(g.expires, now) THEN Blocked("expired_provider_grant")
            ELSE Decide(g.state = "allowed", "explicit_provider")

-----------------------------------------------------------------------------
(* Changes.  A change names a control, a target ("" for none), the state   *)
(* asked for and an expiry (0 for none asked).                             *)

Change ==
    [control : Switches, target : {""}, on : BOOLEAN, expires : Expiries]
    \cup [control : {"provider_authorization"}, target : Providers \cup {""},
          on : BOOLEAN, expires : Expiries]
    \cup [control : {"telegram_user_access"}, target : Users \cup {""},
          on : BOOLEAN, expires : Expiries]

\* An expiry that is not asked for leaves the one that is there.
Kept(asked, old) == IF asked = 0 THEN old ELSE asked

GrantedAsSwitch(on) == IF on THEN "enabled" ELSE "disabled"

Granted(on) == IF on THEN "allowed" ELSE "blocked"

UpsertTarget(entries, c) ==
    [entries EXCEPT ![c.target] =
        [state |-> Granted(c.on), expires |-> Kept(c.expires, @.expires)]]

ApplyChangeToDefault(file, c) ==
    IF c.control = "provider_authorization"
        THEN [file EXCEPT !.provider_default = Granted(c.on)]
        ELSE file

ApplyChange(file, c) ==
    CASE c.control \in Switches ->
            [file EXCEPT !.switch[c.control] =
                [state |-> IF c.on THEN "enabled" ELSE "disabled",
                 expires |-> Kept(c.expires, @.expires)]]
      [] c.control = "provider_authorization" ->
            IF c.target = "" THEN [file EXCEPT !.provider_default = Granted(c.on)]
            ELSE [file EXCEPT !.provider = UpsertTarget(@, c)]
      [] OTHER ->
            IF c.target = "" THEN [file EXCEPT !.user_default = Granted(c.on)]
            ELSE [file EXCEPT !.user = UpsertTarget(@, c)]

\* The receipt handed to the operator: its effective state is the one asked.
ChangeReceipt(c) == [change |-> c, effective |-> c.on]

\* A file that cannot be read, or is missing, cannot be changed.
CanLoadForChange(file) == file.kind = "controls"

=============================================================================
