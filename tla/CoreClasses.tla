---------------------------- MODULE CoreClasses -----------------------------
(***************************************************************************)
(* The classes of src/src/cpp/discovery and src/src/cpp/generic.           *)
(***************************************************************************)
EXTENDS Classes

DeviceInfoResp  == [Immediate("info_resp") EXCEPT !.reads = "absent"]
DeviceInfoQuery == Class("info_query")
DeviceReset     == Signal("reset_query")
DomainInfoQuery == Class("domain_query")
DomainInfoResp  == [Immediate("domain_resp") EXCEPT !.reads = "absent"]
ReadyResp       == Outgoing("ready_resp")
\* The result of the parser is ignored; the type has been looked at before.
SetTransportSpeed == Class("set_speed")

\* Its seven subclasses only choose the result.
CommandResult == Class("cmd_result")
Debug    == Outgoing("debug")
Progress == Outgoing("progress")
Verbose  == Outgoing("verbose")

Table ==
  [DeviceInfoResp |-> DeviceInfoResp, DeviceInfoQuery |-> DeviceInfoQuery,
   DeviceReset |-> DeviceReset, DomainInfoQuery |-> DomainInfoQuery,
   DomainInfoResp |-> DomainInfoResp, ReadyResp |-> ReadyResp,
   SetTransportSpeed |-> SetTransportSpeed, CommandResult |-> CommandResult, Debug |-> Debug,
   Progress |-> Progress, Verbose |-> Verbose]
=============================================================================
