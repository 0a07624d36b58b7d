---------------------------- MODULE TunnelConfig ----------------------------
(***************************************************************************)
(* load_config of tunnel-server and of tunnel-client: what the entries of  *)
(* TUNNEL_SPOKES, and of TARGETS and TARGET, come to, and what the two     *)
(* configurations together make of a client and of its ports.  An entry is *)
(* the record of its parts; the loops take one entry per step.             *)
(***************************************************************************)
EXTENDS Integers, Sequences

CONSTANTS
  SpokeIds,
  AppSpokes,     \* those whose id starts with "app-"
  Tokens,
  Names,         \* target names
  Default,       \* the name "default"
  Hosts,         \* host:port of a target
  Unset,         \* an empty variable, an omitted @target
  Blank,         \* what is left of a target after "@" when nothing is
  SpokeSettings, \* values of TUNNEL_SPOKES: sequences of SpokeEntry
  TargetSettings \* values of TARGETS: sequences of TargetEntry

Binding == [port : Int, target : Names \cup {Unset, Blank}]

(* "blank" is an entry of spaces, "bad" one without all its parts.         *)
SpokeEntry == [form : {"full", "blank", "bad"}, id : SpokeIds,
               ports : Seq(Binding), token : Tokens]
TargetEntry == [form : {"full", "blank", "bad"}, name : Names, host : Hosts]

ASSUME ConfigAssumption ==
  /\ AppSpokes \subseteq SpokeIds
  /\ Default \in Names /\ Unset \notin Names \cup Hosts \cup SpokeIds \cup Tokens
  /\ Blank \notin Names /\ Blank # Unset
  /\ \A x \in SpokeSettings : x \in Seq(SpokeEntry)
  /\ \A x \in TargetSettings : x \in Seq(TargetEntry)

VARIABLES
  setting,   \* the environment of the two programs
  server,    \* load_config of tunnel-server: progress, and spokes
  client     \* load_config of tunnel-client: progress, and targets

configVars == <<setting, server, client>>

ConfigInit ==
  /\ setting \in [spokes : SpokeSettings, targets : TargetSettings,
                  target : Hosts \cup {Unset}, id : SpokeIds \cup {Unset},
                  token : Tokens \cup {Unset}]
  /\ server = [st |-> "loading", pos |-> 0,
               spokes |-> [i \in SpokeIds |-> Unset]]
  /\ client = [st |-> "loading", pos |-> 0,
               targets |-> [n \in Names |-> Unset]]

-----------------------------------------------------------------------------
(* tunnel-server                                                           *)

PortNumbers == 0..65535   \* what parses as a u16

(* An entry load_config gives up on: a cluster spoke needs a port.         *)
BadSpoke(e) ==
  \/ e.form = "bad"
  \/ \E n \in DOMAIN e.ports :
       e.ports[n].target = Blank \/ e.ports[n].port \notin PortNumbers
  \/ e.id \notin AppSpokes /\ e.ports = << >>

TargetOf(b) == IF b.target = Unset THEN Default ELSE b.target

SpokeConfig(e) ==
  [token |-> e.token,
   ports |-> [n \in DOMAIN e.ports |->
                [port |-> e.ports[n].port, target |-> TargetOf(e.ports[n])]]]

ASSUME UnsetAssumption ==
  \A x \in SpokeSettings : \A n \in DOMAIN x : SpokeConfig(x[n]) # Unset

(* Mutant: the first entry of a spoke stays.                               *)
Inserted_First(m, e) ==
  IF m[e.id] = Unset THEN [m EXCEPT ![e.id] = SpokeConfig(e)] ELSE m

(* HashMap::insert: an entry for a spoke seen before replaces it.          *)
Inserted(m, e) == [m EXCEPT ![e.id] = SpokeConfig(e)]

SpokeStep ==
  LET e == setting.spokes[server.pos + 1] IN
  /\ server.st = "loading" /\ server.pos < Len(setting.spokes)
  /\ server' =
       IF e.form = "blank" THEN [server EXCEPT !.pos = @ + 1]
       ELSE IF BadSpoke(e) THEN [server EXCEPT !.st = "failed"]
       ELSE [server EXCEPT !.pos = @ + 1, !.spokes = Inserted(@, e)]
  /\ UNCHANGED <<setting, client>>

(* TUNNEL_SPOKES must not be empty; entries that are all blank will do.    *)
SpokesLoaded ==
  /\ server.st = "loading" /\ server.pos = Len(setting.spokes)
  /\ server' = [server EXCEPT !.st = IF setting.spokes = << >>
                                     THEN "failed" ELSE "ready"]
  /\ UNCHANGED <<setting, client>>

-----------------------------------------------------------------------------
(* tunnel-client                                                           *)

TargetStep ==
  LET e == setting.targets[client.pos + 1] IN
  /\ client.st = "loading" /\ client.pos < Len(setting.targets)
  /\ client' =
       CASE e.form = "blank" -> [client EXCEPT !.pos = @ + 1]
         [] e.form = "bad" -> [client EXCEPT !.st = "failed"]
         [] e.form = "full" ->
              [client EXCEPT !.pos = @ + 1, !.targets[e.name] = e.host]
  /\ UNCHANGED <<setting, server>>

(* Mutant: TARGET wins over TARGETS.                                       *)
WithTarget_Wins(t) ==
  IF setting.target = Unset THEN t ELSE [t EXCEPT ![Default] = setting.target]

(* The legacy TARGET fills in for "default".                               *)
WithTarget(t) ==
  IF t[Default] = Unset THEN [t EXCEPT ![Default] = setting.target] ELSE t

(* SPOKE_ID, TUNNEL_TOKEN (and HUB_URL, taken as set) are required, and,   *)
(* but for application spokes, some target.                                *)
TargetsLoaded ==
  LET t == WithTarget(client.targets)
      usable == /\ setting.id # Unset /\ setting.token # Unset
                /\ setting.id \in AppSpokes \/ \E n \in Names : t[n] # Unset
  IN
  /\ client.st = "loading" /\ client.pos = Len(setting.targets)
  /\ client' = [client EXCEPT !.targets = t,
                              !.st = IF usable THEN "ready" ELSE "failed"]
  /\ UNCHANGED <<setting, server>>

ConfigNext == SpokeStep \/ SpokesLoaded \/ TargetStep \/ TargetsLoaded

ConfigSpec == ConfigInit /\ [][ConfigNext]_configVars

-----------------------------------------------------------------------------
(* What becomes of the two configurations                                  *)

Serving == server.st = "ready" /\ client.st = "ready"

(* handle_connection: the spoke must be listed, with this token.           *)
Accepted ==
  /\ server.spokes[setting.id] # Unset
  /\ server.spokes[setting.id].token = setting.token

(* accept_loop names the target of the port, and the client looks it up.   *)
Reaches(b) == client.targets[b.target]

-----------------------------------------------------------------------------
(* Properties                                                              *)

(* The entries of a setting that count for x: the last one that names it.  *)
LastNaming(entries, names(_)) ==
  {entries[n] : n \in {m \in DOMAIN entries : names(entries[m]) /\
     \A k \in DOMAIN entries : names(entries[k]) => k <= m}}

(* What was written for spoke i last, over all its duplicates.             *)
WrittenFor(i) ==
  LastNaming(setting.spokes, LAMBDA e : e.form = "full" /\ e.id = i)

(* A client gets in exactly if the last entry of its spoke has its token:  *)
(* an entry that was replaced gives no access, and none is lost.           *)
AcceptedAsWritten ==
  Serving => (Accepted <=> \E e \in WrittenFor(setting.id) :
                             e.token = setting.token)

(* The host the client's settings give a name: the last TARGETS entry, or  *)
(* TARGET for the default.                                                 *)
WrittenHost(n) ==
  LET es == LastNaming(setting.targets, LAMBDA e : e.form = "full" /\ e.name = n) IN
  IF es # {} THEN {e.host : e \in es}
  ELSE {IF n = Default THEN setting.target ELSE Unset}

(* "TARGETS wins if it also sets default": each port of an accepted spoke  *)
(* leads to the host its client's settings give the port's target, with    *)
(* "default" for an omitted one on either side, so legacy settings of one  *)
(* side work with new ones of the other.                                   *)
RoutesAsWritten ==
  (Serving /\ Accepted) =>
    \A e \in WrittenFor(setting.id) : \A n \in DOMAIN e.ports :
      /\ server.spokes[setting.id].ports[n].port = e.ports[n].port
      /\ Reaches(server.spokes[setting.id].ports[n]) \in
           WrittenHost(IF e.ports[n].target = Unset THEN Default
                       ELSE e.ports[n].target)
=============================================================================
