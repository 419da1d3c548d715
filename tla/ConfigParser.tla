---------------------------- MODULE ConfigParser ----------------------------
(***************************************************************************)
(* ConfigParser (src/lib/utility/config_parser.hpp): one object per file,  *)
(* whose parseConfig and parseAppParameters fill its member vectors and    *)
(* return a bool.                                                          *)
(*                                                                         *)
(* A document is abstracted to the keys the parser tests or reads.  A      *)
(* partition entry records whether it has is_active: false, a "name", and  *)
(* the other required fields (taken together: the parser tests them in one *)
(* condition).  A feed class records whether it has the feed-wide IPs, and *)
(* its partitions list.  "is_active": true behaves as no is_active at all. *)
(*                                                                         *)
(* operator[] on a const json object that lacks the key is undefined       *)
(* behaviour (nlohmann asserts in a debug build).  The parser does it when *)
(* it logs the name of a partition before testing that it has one, and     *)
(* when it copies feed IPs it never tests.  A build either stops there or  *)
(* reads garbage and goes on; both are modelled.                           *)
(***************************************************************************)
EXTENDS Naturals, Sequences, SequencesExt

CONSTANTS
  MaxPartitions   \* longest partitions list of a feed class

Keys == <<"equity", "derivative">>

Partition == [inactive : BOOLEAN, name : BOOLEAN, fields : BOOLEAN]

FeedClass ==
  {[kind |-> "absent"], [kind |-> "nolist"]}
    \cup [kind : {"list"}, ips : BOOLEAN, parts : BoundedSeq(Partition, MaxPartitions)]

MarketData ==
  {[kind |-> "absent"]} \cup [kind : {"object"}, equity : FeedClass, derivative : FeedClass]

OeEntry ==
  {[kind |-> "absent"]} \cup [kind : {"entry"}, inactive : BOOLEAN, name : BOOLEAN, fields : BOOLEAN]

OrderEntryDoc ==
  {[kind |-> "absent"]} \cup [kind : {"object"}, globals : BOOLEAN, equity : OeEntry, derivative : OeEntry]

\* The file at m_file_name: missing, not JSON, a configuration document,
\* or an app-parameters document whose index is absent, not an integer,
\* or an integer.
Files ==
  {[kind |-> "nofile"], [kind |-> "malformed"]}
    \cup [kind : {"config"}, md : MarketData, oe : OrderEntryDoc]
    \cup [kind : {"app"}, index : {"absent", "string", "integer"}]

VARIABLES
  file,         \* the document at m_file_name
  called,       \* the parse functions called so far
  mdCfg,        \* m_marketDataConfig.partition_configs: <<key, position>>
  oeCfg,        \* m_orderEntryConfig.partition_configs: key
  oeGlobals,    \* client_account and exchange_info have been copied
  appLoaded,    \* m_appParams.last_used_token_index has been set
  result,       \* what each call returned: "none", "ok" or "fail"
  ub,           \* a missing key has been read through const operator[]
  crashed       \* the undefined read stopped the process

vars == <<file, called, mdCfg, oeCfg, oeGlobals, appLoaded, result, ub, crashed>>

\* A parse in progress: its verdict so far, the two vectors and the flag.
Run(md, oe, g) == [ok |-> TRUE, md |-> md, oe |-> oe, globals |-> g, ub |-> FALSE]

Fail(r) == [r EXCEPT !.ok = FALSE]

MdPartitionNextIndex(r, key, cls, i) ==
  LET p == cls.parts[i] IN
  IF p.inactive THEN [r EXCEPT !.ub = @ \/ ~p.name]
  ELSE IF ~p.name \/ ~p.fields THEN Fail([r EXCEPT !.ub = @ \/ ~p.name])
  ELSE [r EXCEPT !.md = Append(@, <<key, i + 1>>), !.ub = @ \/ ~cls.ips]

\* One partition of a feed class: an inactive one is logged by its name and
\* skipped; an active one is logged by its name, then tested, then copied
\* together with the feed-wide IPs of its class.
MdPartition(r, key, cls, i) ==
  LET p == cls.parts[i] IN
  IF p.inactive THEN [r EXCEPT !.ub = @ \/ ~p.name]
  ELSE IF ~p.name \/ ~p.fields THEN Fail([r EXCEPT !.ub = @ \/ ~p.name])
  ELSE [r EXCEPT !.md = Append(@, <<key, i>>), !.ub = @ \/ ~cls.ips]

RECURSIVE PartitionLoop(_, _, _, _)
PartitionLoop(r, key, cls, i) ==
  IF i > Len(cls.parts) \/ ~r.ok THEN r
  ELSE PartitionLoop(MdPartition(r, key, cls, i), key, cls, i + 1)

ParseInstrumentConfig(r, md, key) ==
  LET cls == md[key] IN
  IF cls.kind # "list" THEN Fail(r) ELSE PartitionLoop(r, key, cls, 1)

\* The equity or derivative entry of order_entry, in the loop's order.
OeEntryStep(r, oe, key) ==
  LET e == oe[key] IN
  IF e.kind = "absent" THEN Fail(r)
  ELSE IF e.inactive THEN [r EXCEPT !.ub = @ \/ ~e.name]
  ELSE IF ~e.name \/ ~e.fields THEN Fail([r EXCEPT !.ub = @ \/ ~e.name])
  ELSE [r EXCEPT !.oe = Append(@, key)]

ParseOrderEntryConfig(r, oe) ==
  IF ~oe.globals THEN Fail(r)
  ELSE LET r1 == OeEntryStep([r EXCEPT !.globals = TRUE], oe, "equity")
       IN IF r1.ok THEN OeEntryStep(r1, oe, "derivative") ELSE r1

\* parseConfig: each step runs only if the ones before it succeeded.
ParseDocument(r, f) ==
  IF f.kind \in {"nofile", "malformed", "app"} THEN Fail(r)
  ELSE IF f.md.kind = "absent" \/ f.oe.kind = "absent" THEN Fail(r)
  ELSE LET r1 == ParseInstrumentConfig(r, f.md, "equity")
           r2 == IF r1.ok THEN ParseInstrumentConfig(r1, f.md, "derivative") ELSE r1
       IN IF r2.ok THEN ParseOrderEntryConfig(r2, f.oe) ELSE r2

\* The index parseAppParameters takes: present and is_number_integer().
HasIndex(f) == f.kind = "app" /\ f.index = "integer"

Init ==
  /\ file \in Files
  /\ called = {}
  /\ mdCfg = <<>>
  /\ oeCfg = <<>>
  /\ oeGlobals = FALSE
  /\ appLoaded = FALSE
  /\ result = [config |-> "none", app |-> "none"]
  /\ ub = FALSE
  /\ crashed = FALSE

-----------------------------------------------------------------------------
(* One action per public parse function, each called once on the object.   *)

ParseConfig ==
  /\ ~crashed
  /\ "config" \notin called
  /\ called' = called \cup {"config"}
  /\ LET r == ParseDocument(Run(mdCfg, oeCfg, oeGlobals), file) IN
     /\ mdCfg' = r.md
     /\ oeCfg' = r.oe
     /\ oeGlobals' = r.globals
     /\ ub' = (ub \/ r.ub)
     /\ \/ /\ result' = [result EXCEPT !.config = IF r.ok THEN "ok" ELSE "fail"]
           /\ UNCHANGED crashed
        \/ /\ r.ub
           /\ crashed' = TRUE
           /\ UNCHANGED result
  /\ UNCHANGED <<file, appLoaded>>

ParseAppParameters ==
  /\ ~crashed
  /\ "app" \notin called
  /\ called' = called \cup {"app"}
  /\ appLoaded' = (appLoaded \/ HasIndex(file))
  /\ result' = [result EXCEPT !.app = IF HasIndex(file) THEN "ok" ELSE "fail"]
  /\ UNCHANGED <<file, mdCfg, oeCfg, oeGlobals, ub, crashed>>

Next == ParseConfig \/ ParseAppParameters

Spec == Init /\ [][Next]_vars

-----------------------------------------------------------------------------
(* What section 4.4 of the specification asks of a document, stated over  *)
(* the document rather than by walking it.                                 *)

ActiveParts(cls) == {i \in 1..Len(cls.parts) : ~cls.parts[i].inactive}

\* Every required key is there, and every active entry has its fields.
Complete(f) ==
  /\ f.kind = "config"
  /\ f.md.kind = "object" /\ f.oe.kind = "object"
  /\ \A k \in Range(Keys) :
       /\ f.md[k].kind = "list"
       /\ \A i \in ActiveParts(f.md[k]) : f.md[k].parts[i].name /\ f.md[k].parts[i].fields
  /\ f.oe.globals
  /\ \A k \in Range(Keys) :
       /\ f.oe[k].kind = "entry"
       /\ ~f.oe[k].inactive => f.oe[k].name /\ f.oe[k].fields

\* The active partitions of the document, equity before derivative, each
\* class in list order.
ExpectedMd(f) ==
  LET InClass(k) == SetToSortSeq({<<k, i>> : i \in ActiveParts(f.md[k])},
                                 LAMBDA a, b : a[2] < b[2])
  IN InClass("equity") \o InClass("derivative")

ExpectedOe(f) == SelectSeq(Keys, LAMBDA k : ~f.oe[k].inactive)

-----------------------------------------------------------------------------
(* Properties                                                              *)

ConfigTypeOK ==
  /\ file \in Files
  /\ called \subseteq {"config", "app"}
  /\ mdCfg \in Seq(Range(Keys) \X (1..MaxPartitions))
  /\ oeCfg \in Seq(Range(Keys))
  /\ {oeGlobals, appLoaded, ub, crashed} \subseteq BOOLEAN
  /\ result \in [config : {"none", "ok", "fail"}, app : {"none", "ok", "fail"}]

NoPartialConfig ==
  result.config = "fail" => mdCfg = <<>> /\ oeCfg = <<>>

\* No key is ever read from a const json object that lacks it.
NoUndefinedRead == ~ub

=============================================================================
