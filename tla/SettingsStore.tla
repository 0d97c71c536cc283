---------------------------- MODULE SettingsStore ----------------------------
(***************************************************************************)
(* The bot's settings: one row of PostgreSQL, a cached copy of it behind a *)
(* lock, and the lyrics endpoint other components hold a handle to         *)
(* (crates/db/src/settings.rs, crates/core/src/settings.rs).  The panel's  *)
(* buttons, the /settings and /stream commands (crates/bot/src/handlers/   *)
(* settings.rs, stream.rs) and the reload that follows /import run as      *)
(* tasks of their own.  A task reads the cache, awaits the database, and   *)
(* writes the cache and the endpoint in two steps; no lock spans them.     *)
(*                                                                         *)
(* The six switches are the set Flag; the stream URL and port are left out *)
(* (they are stored as the lyrics URL is, without an endpoint), and so are *)
(* the unknown keys kept in `extra`.                                       *)
(***************************************************************************)
EXTENDS Integers, FiniteSets

CONSTANTS
    Flag,        \* the *_rip_enabled switches
    Url,         \* URLs that normalize_lyricsporn_api_url accepts, as it returns them
    NoUrl,       \* no URL
    Bad,         \* a value the key does not accept, or that does not decode
    Command,     \* commands that may run at one time
    MaxCommands  \* bound on commands in a behaviour

\* The switches are keys of their own, and the number of commands is a number.
ASSUME SettingsAssumption ==
    /\ Flag \cap {"mode", "url"} = {}
    /\ MaxCommands \in Nat

VARIABLES
    row,         \* the settings row
    cache,       \* cached_settings
    endpoint,    \* LyricspornApiEndpoint
    command,     \* the running commands
    count,       \* commands begun
    saved,       \* history: all that the row has stood for
    steady       \* history: no two commands overlapped and no reload failed

settingVars == <<row, cache, endpoint, command, count, saved, steady>>

Mode == {"live", "cache_only", "paused"}
Settings == [mode : Mode, on : [Flag -> BOOLEAN], url : Url \cup {NoUrl}]
default_settings == [mode |-> "live", on |-> [f \in Flag |-> TRUE], url |-> NoUrl]

\* The row holds JSON that an import may have brought from elsewhere.
Rows == [mode : Mode \cup {Bad}, on : [Flag -> BOOLEAN], url : Url \cup {NoUrl, Bad}]

\* Data that does not decode is the defaults, a URL that does not normalize is none.
from_row(r) == IF r.mode \notin Mode THEN default_settings
               ELSE [r EXCEPT !.url = IF r.url \in Url THEN r.url ELSE NoUrl]
Stored == from_row(row)

NoCommand == [at |-> "idle", key |-> NoUrl, value |-> NoUrl, next |-> default_settings]
SettingKey == Flag \cup {"mode", "url"}   \* the canonical keys

SettingsTypeOK ==
    /\ row \in Rows /\ cache \in Settings /\ saved \subseteq Settings
    /\ endpoint \in Url \cup {NoUrl}
    /\ DOMAIN command = Command
    /\ \A o \in Command :
          /\ command[o].at \in {"idle", "set", "persist", "cache", "endpoint",
                                "load", "loaded", "reloaded"}
          /\ command[o].next \in Settings
    /\ count \in 0 .. MaxCommands /\ steady \in BOOLEAN

\* A row that is imported, or found at the start: data that decodes or does not, a
\* URL of any kind.
ImportedRows == {r \in Rows : r.mode \in {"live", Bad} /\ r.on = default_settings.on}

\* init: the row is read before the bot serves anyone.
SettingsInit ==
    /\ row \in ImportedRows
    /\ cache = Stored /\ endpoint = Stored.url
    /\ command = [o \in Command |-> NoCommand] /\ count = 0
    /\ saved = {Stored} /\ steady = TRUE

Resting(o) == command[o].at = "idle"

BeginCommand(o) ==
    /\ Resting(o) /\ count < MaxCommands
    /\ count' = count + 1
    /\ steady' = (steady /\ \A p \in Command : Resting(p))

EndCommand(o) == command' = [command EXCEPT ![o] = NoCommand]
cycled_mode == [live |-> "cache_only", cache_only |-> "paused", paused |-> "live"]

-----------------------------------------------------------------------------
(* set_setting. *)

\* A command names the value itself; Bad is one the handler let through.
SetTo(o, k, v) ==
    /\ BeginCommand(o)
    /\ command' = [command EXCEPT ![o] =
                      [NoCommand EXCEPT !.at = "set", !.key = k, !.value = v]]
    /\ UNCHANGED <<row, cache, endpoint, saved>>

\* The panel's buttons derive it from a first read of the cache.
Toggle(o, f) == SetTo(o, f, ~cache.on[f])
CycleMode(o) == SetTo(o, "mode", cycled_mode[cache.mode])

Values(k) == IF k \in Flag THEN BOOLEAN ELSE IF k = "mode" THEN Mode ELSE Url \cup {NoUrl}

ApplyValue(s, k, v) ==
    [mode |-> IF k = "mode" THEN v ELSE s.mode,
     on   |-> IF k \in Flag THEN [s.on EXCEPT ![k] = v] ELSE s.on,
     url  |-> IF k = "url" THEN v ELSE s.url]

\* The cache is read again; a value of the wrong kind changes nothing.
Apply(o) ==
    /\ command[o].at = "set"
    /\ IF command[o].value \in Values(command[o].key)
       THEN command' = [command EXCEPT
               ![o].at = "persist",
               ![o].next = ApplyValue(cache, command[o].key, command[o].value)]
       ELSE EndCommand(o)
    /\ UNCHANGED <<row, cache, endpoint, count, saved, steady>>

\* A mutant of Persist: the cache is shown whether the row was written or not.
CacheFirst(o, ok) ==
    /\ command[o].at = "persist"
    /\ row' = IF ok THEN command[o].next ELSE row
    /\ cache' = command[o].next
    /\ IF ok THEN command' = [command EXCEPT ![o].at = "endpoint"] ELSE EndCommand(o)
    /\ saved' = saved \cup {from_row(row')}
    /\ UNCHANGED <<endpoint, count, steady>>

\* The whole row is replaced.  An error is logged, the cache keeps its value.
Persist(o, ok) ==
    /\ command[o].at = "persist"
    /\ row' = IF ok THEN command[o].next ELSE row
    /\ IF ok THEN command' = [command EXCEPT ![o].at = "cache"] ELSE EndCommand(o)
    /\ saved' = saved \cup {from_row(row')}
    /\ UNCHANGED <<cache, endpoint, count, steady>>

SetCache(o) ==
    /\ command[o].at = "cache"
    /\ cache' = command[o].next
    /\ command' = [command EXCEPT ![o].at = "endpoint"]
    /\ UNCHANGED <<row, endpoint, count, saved, steady>>

SetEndpoint(o) ==
    /\ command[o].at = "endpoint"
    /\ endpoint' = command[o].next.url
    /\ EndCommand(o)
    /\ UNCHANGED <<row, cache, count, saved, steady>>

-----------------------------------------------------------------------------
(* /import replaces the row and reloads it. *)

ImportRow(o, s) ==
    /\ BeginCommand(o)
    /\ row' = s /\ saved' = saved \cup {from_row(s)}
    /\ command' = [command EXCEPT ![o] = [NoCommand EXCEPT !.at = "load"]]
    /\ UNCHANGED <<cache, endpoint>>

Load(o, ok) ==
    /\ command[o].at = "load"
    /\ IF ok THEN command' = [command EXCEPT ![o].at = "loaded", ![o].next = Stored] ELSE EndCommand(o)
    /\ steady' = (steady /\ ok)
    /\ UNCHANGED <<row, cache, endpoint, count, saved>>

\* reload: the endpoint first, then the cache.
ReloadEndpoint(o) ==
    /\ command[o].at = "loaded"
    /\ endpoint' = command[o].next.url
    /\ command' = [command EXCEPT ![o].at = "reloaded"]
    /\ UNCHANGED <<row, cache, count, saved, steady>>

ReloadCache(o) ==
    /\ command[o].at = "reloaded"
    /\ cache' = command[o].next
    /\ EndCommand(o)
    /\ UNCHANGED <<row, endpoint, count, saved, steady>>

SettingsNext ==
    \E o \in Command :
       \/ \E f \in Flag : Toggle(o, f)
       \/ CycleMode(o)
       \/ \E k \in SettingKey : \E v \in Values(k) \cup {Bad} : SetTo(o, k, v)
       \/ Apply(o)
       \/ \E ok \in BOOLEAN : Persist(o, ok)
       \/ SetCache(o) \/ SetEndpoint(o)
       \/ \E s \in ImportedRows : ImportRow(o, s)
       \/ \E ok \in BOOLEAN : Load(o, ok)
       \/ ReloadEndpoint(o) \/ ReloadCache(o)

SettingsSpec == SettingsInit /\ [][SettingsNext]_settingVars

-----------------------------------------------------------------------------

\* Whatever the commands interleave, nobody is served a setting that was never
\* stored: a failed write leaves the cache and the endpoint as they were
\* (set_setting returns before it touches them).
NothingUnsaved ==
    /\ cache \in saved
    /\ endpoint \in {s.url : s \in saved}

\* One command at a time: once it is over, the row, the cache and the endpoint
\* say the same, so a restart changes nothing (set_setting, reload).
SettingsAgree ==
    (steady /\ \A o \in Command : Resting(o)) => (cache = Stored /\ endpoint = Stored.url)

\* What is served is what is stored (set_setting, reload).
SettingsKept ==
    SettingsTypeOK /\ NothingUnsaved /\ SettingsAgree
=============================================================================
