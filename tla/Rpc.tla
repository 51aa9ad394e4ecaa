----------------------------------- MODULE Rpc -----------------------------------
(***************************************************************************)
(* The receiving half of rpc.c: which plists of an inspector are accepted, *)
(* and which call of the proxy each one makes.                             *)
(*                                                                         *)
(* A plist is a tree of nodes as libplist returns it: a node has a type,   *)
(* and a value if it is not "none", the missing node; the value of a       *)
(* dictionary is a function from its keys to nodes.  An optional item that *)
(* was parsed is a set of at most one value.                               *)
(***************************************************************************)
EXTENDS Integers

CONSTANTS
  Number,   \* strtol(key, NULL, 0): what the keys of a listing spell
  MaxUint   \* UINT32_MAX

ASSUME RpcAssumption == MaxUint \in Nat

-----------------------------------------------------------------------------
(* rpc_dict_get_*: the items of a node, which may be no dictionary at all. *)

NoNode == [type |-> "none"]

Item(node, key) ==
  IF node.type = "dict" /\ key \in DOMAIN node.value THEN node.value[key] ELSE NoNode

Has(node, key, type) == Item(node, key).type = type

(* An optional item may be missing, but may not have another type. *)
May(node, key, type) == Item(node, key).type \in {"none", type}

HasUint(node, key) == Has(node, key, "uint") /\ Item(node, key).value <= MaxUint

Value(node, key) == Item(node, key).value

Optional(node, key) == {Value(node, k) : k \in {key} \cap DOMAIN node.value}

-----------------------------------------------------------------------------
(* Applications and pages.  A single entry that is not in order makes the whole
   list one that is refused. *)

IsApp(node) ==
  /\ Has(node, "WIRApplicationIdentifierKey", "string")
  /\ May(node, "WIRApplicationNameKey", "string")
  /\ May(node, "WIRIsApplicationProxyKey", "boolean")

ParseApp(node) ==
  [id |-> Value(node, "WIRApplicationIdentifierKey"),
   name |-> Optional(node, "WIRApplicationNameKey")]

IsApps(node) ==
  /\ node.type = "dict"
  /\ \A key \in DOMAIN node.value :
       IsApp(node.value[key]) /\ ParseApp(node.value[key]).id = key

ParseApps(node) == {ParseApp(node.value[key]) : key \in DOMAIN node.value}

IsPage(node) ==
  /\ HasUint(node, "WIRPageIdentifierKey")
  /\ \A key \in {"WIRConnectionIdentifierKey", "WIRTitleKey", "WIRURLKey"} :
       May(node, key, "string")

ParsePage(node) ==
  [id |-> Value(node, "WIRPageIdentifierKey"),
   connection |-> Optional(node, "WIRConnectionIdentifierKey")]

(* Faulty: the pages are not compared with the keys they are listed under. *)
IsPagesUnderAnyKey(node) ==
  node.type = "dict" /\ \A key \in DOMAIN node.value : IsPage(node.value[key])

IsPages(node) ==
  /\ node.type = "dict"
  /\ \A key \in DOMAIN node.value :
       IsPage(node.value[key]) /\ ParsePage(node.value[key]).id = Number[key]

(* The array of pages that the handler is given, by the keys of the listing. *)
ParsePages(node) == [key \in DOMAIN node.value |-> ParsePage(node.value[key])]

-----------------------------------------------------------------------------
(* rpc_recv_*: one operator per message, the set of the calls it makes.  An
   empty set is a message that is refused. *)

RecvReportSetup(args) ==
  {[on |-> "reportSetup"] : x \in {args.type} \cap {"dict"}}

RecvApps(args) ==
  LET apps == Item(args, "WIRApplicationDictionaryKey")
  IN  IF IsApps(apps)
      THEN {[on |-> "reportConnectedApplicationList", apps |-> ParseApps(apps)]} ELSE {}

RecvApp(on, args) == IF IsApp(args) THEN {[on |-> on, app |-> ParseApp(args)]} ELSE {}

RecvListing(args) ==
  LET pages == Item(args, "WIRListingKey")
  IN  IF Has(args, "WIRApplicationIdentifierKey", "string") /\ IsPages(pages)
      THEN {[on |-> "applicationSentListing",
             appId |-> Value(args, "WIRApplicationIdentifierKey"),
             pages |-> ParsePages(pages)]}
      ELSE {}

RecvData(args) ==
  IF /\ Has(args, "WIRApplicationIdentifierKey", "string")
     /\ Has(args, "WIRDestinationKey", "string")
     /\ Has(args, "WIRMessageDataKey", "data")
  THEN {[on |-> "applicationSentData",
         destination |-> Value(args, "WIRDestinationKey"),
         data |-> Value(args, "WIRMessageDataKey")]}
  ELSE {}

(* Faulty: the application's name is asked for in both forms of the message. *)
RecvUpdatedNamed(args) ==
  IF /\ Has(args, "WIRApplicationNameKey", "string")
     /\ Has(args, "WIRApplicationIdentifierKey", "string")
  THEN {[on |-> "applicationUpdated", appId |-> Value(args, "WIRApplicationIdentifierKey")]}
  ELSE {}

(* With a host application the name does not matter, not even its type. *)
RecvUpdated(args) ==
  IF /\ \/ Has(args, "WIRHostApplicationIdentifierKey", "string")
        \/ Has(args, "WIRApplicationNameKey", "string")
     /\ Has(args, "WIRApplicationIdentifierKey", "string")
  THEN {[on |-> "applicationUpdated", appId |-> Value(args, "WIRApplicationIdentifierKey")]}
  ELSE {}

(* Messages that are accepted without a call. *)
Ignored == {"_rpc_reportConnectedDriverList:", "_rpc_reportCurrentState:"}

(* rpc_recv_msg *)
RecvMsg(selector, args) ==
  CASE selector = "_rpc_reportSetup:" -> RecvReportSetup(args)
    [] selector = "_rpc_reportConnectedApplicationList:" -> RecvApps(args)
    [] selector = "_rpc_applicationConnected:" -> RecvApp("applicationConnected", args)
    [] selector = "_rpc_applicationDisconnected:" -> RecvApp("applicationDisconnected", args)
    [] selector = "_rpc_applicationSentListing:" -> RecvListing(args)
    [] selector = "_rpc_applicationSentData:" -> RecvData(args)
    [] selector = "_rpc_applicationUpdated:" -> RecvUpdated(args)
    [] selector \in Ignored -> {[on |-> "ignored"]}
    [] OTHER -> {}

(* rpc_recv_plist: a selector that is no string is none. *)
RecvPlist(plist) ==
  IF Has(plist, "__selector", "string")
  THEN RecvMsg(Value(plist, "__selector"), Item(plist, "__argument")) ELSE {}
=============================================================================
