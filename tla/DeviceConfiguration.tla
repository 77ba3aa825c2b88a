------------------------ MODULE DeviceConfiguration ------------------------
(***************************************************************************)
(* DeviceConfiguration (configuration/DeviceConfiguration.cpp): the        *)
(* applications of a device and its settings, to and from JSON.            *)
(*                                                                         *)
(* An application is its id, NoText when it has none, and the time at      *)
(* which its content was written, which stands for the content.  A JSON object   *)
(* is a function on the keys it has.  Time is in half seconds, so that a   *)
(* date written in whole seconds differs from the one in memory.           *)
(* A definition X_Y is X with the mistake Y, used by no specification.     *)
(***************************************************************************)
EXTENDS Integers, Sequences, SequencesExt

CONSTANTS
  Ids,       \* ids of applications
  Settings,  \* contents of the system configuration; 0 is the empty object
  MaxTime    \* bound: the clock

ASSUME ConfigurationAssumption ==
  /\ Ids \subseteq STRING
  /\ Settings \subseteq Nat
  /\ MaxTime \in Nat

VARIABLES
  config,    \* the configuration in memory
  now,       \* the clock
  saved,     \* the JSON written last, with what is known of it, or none: see NothingSaved
  written,   \* for each id, the content last written under it, 0 if none
  duplicate  \* ids under which addApplication added a second application

configVars == <<config, now, saved, written, duplicate>>

NoText == ""

InvalidTime == 0   \* an invalid QDateTime, and the text of one

NewConfiguration(time) ==
  [version |-> "1.0", deviceId |-> NoText, activeAppId |-> NoText, lastModified |-> time,
   systemConfiguration |-> 0, applications |-> <<>>]

NothingSaved == [json |-> [key \in {} |-> NoText], written |-> [id \in Ids |-> 0], duplicate |-> {}]

Init ==
  /\ now = 2
  /\ config = NewConfiguration(now)
  /\ saved = NothingSaved
  /\ written = [id \in Ids |-> 0]
  /\ duplicate = {}

----------------------------------------------------------------------------
(* JSON. *)

Seconds(time) == time - (time % 2)

\* The members that are set; the version and the applications always are.  The key
\* system_configuration is spelt with a hyphen in the code.
Keys_WithoutSettings(c) ==
  {"version", "applications"}
    \cup (IF c.deviceId # NoText THEN {"device_id"} ELSE {})
    \cup (IF c.activeAppId # NoText THEN {"active_app_id"} ELSE {})
    \cup (IF c.lastModified # InvalidTime THEN {"last_modified"} ELSE {})

Keys(c) ==
  Keys_WithoutSettings(c)
    \cup (IF c.systemConfiguration # 0 THEN {"system_configuration"} ELSE {})

toJson(c) ==
  Restrict([version |-> c.version, applications |-> c.applications, device_id |-> c.deviceId,
            last_modified |-> Seconds(c.lastModified), active_app_id |-> c.activeAppId,
            system_configuration |-> c.systemConfiguration], Keys(c))

Value(json, key, default) == IF key \in DOMAIN json THEN json[key] ELSE default

Application(id, content) == [isObject |-> TRUE, id |-> id, content |-> content]
NotAnObject == [isObject |-> FALSE, id |-> NoText, content |-> 0]

\* The elements of a list at some of its positions, in order.
KeepAt(list, positions) ==
  LET kept[n \in 0..Len(list)] ==
        IF n = 0 THEN <<>>
        ELSE IF n \in positions THEN Append(kept[n - 1], list[n]) ELSE kept[n - 1]
  IN kept[Len(list)]

Objects(list) == KeepAt(list, {i \in 1..Len(list) : list[i].isObject})

\* A configuration may come inside a frame.  A date that is missing is the time of
\* loading; one that cannot be parsed is invalid.
fromJson(frame, time) ==
  LET json == Value(frame, "configuration", frame) IN
  [version |-> Value(json, "version", "1.0"),
   deviceId |-> Value(json, "device_id", NoText),
   activeAppId |-> Value(json, "active_app_id", NoText),
   lastModified |-> Value(json, "last_modified", time),
   systemConfiguration |-> Value(json, "system_configuration", 0),
   applications |-> Objects(Value(json, "applications", <<>>))]

----------------------------------------------------------------------------
(* Operations.  Each takes a tick. *)

Tick == now < MaxTime /\ now' = now + 1

Changed(c) == [c EXCEPT !.lastModified = now]
Wrote(id, content) == written' = [written EXCEPT ![id] = content]

Positions(c, id) == {i \in 1..Len(c.applications) : c.applications[i].id = id}

Added(c, app) == Changed([c EXCEPT !.applications = Append(@, app)])

addApplication(id) ==
  /\ Tick
  /\ config' = Added(config, Application(id, now))
  /\ Wrote(id, now)
  /\ duplicate' = IF Positions(config, id) = {} THEN duplicate ELSE duplicate \cup {id}
  /\ UNCHANGED saved

Removed_First(c, id) ==
  Changed([c EXCEPT !.applications = IF Positions(c, id) = {} THEN @ ELSE RemoveAt(@, Min(Positions(c, id)))])

Removed(c, id) == Changed([c EXCEPT !.applications = KeepAt(@, 1..Len(@) \ Positions(c, id))])

removeApplication(id) ==
  /\ Tick
  /\ config' = Removed(config, id)
  /\ Wrote(id, 0)
  /\ duplicate' = duplicate \ {id}
  /\ UNCHANGED saved

\* The first application of the id is replaced; without one, it is added.
Updated(c, app) ==
  IF Positions(c, app.id) = {} THEN Added(c, app)
  ELSE Changed([c EXCEPT !.applications[Min(Positions(c, app.id))] = app])

updateApplication(id) ==
  /\ Tick
  /\ config' = Updated(config, Application(id, now))
  /\ Wrote(id, now)
  /\ UNCHANGED <<saved, duplicate>>

\* The members are public: assigning one leaves the date as it is.
assign ==
  /\ Tick
  /\ config' \in {[config EXCEPT !.activeAppId = id] : id \in Ids}
                   \cup {[config EXCEPT !.systemConfiguration = s] : s \in Settings}
                   \cup {[config EXCEPT !.version = NoText], [config EXCEPT !.deviceId = "SN"],
                         [config EXCEPT !.lastModified = InvalidTime]}
  /\ UNCHANGED <<saved, written, duplicate>>

save ==
  /\ Tick
  /\ saved' = [json |-> toJson(config), written |-> written, duplicate |-> duplicate]
  /\ UNCHANGED <<config, written, duplicate>>

With(json, key, value) ==
  [k \in DOMAIN json \cup {key} |-> IF k = key THEN value ELSE json[k]]

InFrame(json) == [status |-> "success", configuration |-> json]

\* What a reader may find of what was saved: as it is, in a frame, without its date
\* or with one that is no date, among values that are no applications.
Readings(json) ==
  {json, InFrame(json),
   Restrict(json, DOMAIN json \ {"last_modified"}),
   With(json, "last_modified", InvalidTime),
   With(json, "applications", <<NotAnObject>> \o Value(json, "applications", <<>>))}

\* The process starts again, and reads what was saved, or nothing.
load ==
  /\ Tick
  /\ \E json \in Readings(saved.json) : config' = fromJson(json, now)
  /\ written' = saved.written
  /\ duplicate' = saved.duplicate
  /\ UNCHANGED saved

Next ==
  \/ \E id \in Ids : addApplication(id) \/ removeApplication(id) \/ updateApplication(id)
  \/ assign \/ save \/ load

Spec == Init /\ [][Next]_configVars

----------------------------------------------------------------------------
(* Properties. *)

\* Writing a configuration and reading it back, in a frame or not, loses nothing
\* but the fraction of a second; one without a date gets the time of reading.
RoundTrip ==
  LET expected == [config EXCEPT !.lastModified =
                     IF @ = InvalidTime THEN now ELSE Seconds(@)] IN
  \A json \in {toJson(config), InFrame(toJson(config))} : fromJson(json, now) = expected

\* Looking an id up finds what was last written under it, through updates, removals,
\* restarts and hand-edited files, unless it was added twice; a removed one is not
\* found even then.
LastWriteWins ==
  \A id \in Ids :
    LET contents == {config.applications[i].content : i \in Positions(config, id)} IN
    /\ written[id] = 0 => contents = {}
    /\ id \notin duplicate /\ written[id] # 0 => contents = {written[id]}
=============================================================================
