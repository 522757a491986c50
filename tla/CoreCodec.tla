----------------------------- MODULE CoreCodec -----------------------------
(***************************************************************************)
(* The messages every device has: src/src/generic.c and                    *)
(* src/src/discovery.c. The parsers of these two files test the tags.      *)
(***************************************************************************)
EXTENDS Codec

CmdResult == Tested(Message("cmd_result", [result |-> Plain]))
\* The string stays the caller's; the encoder's callback copies it.
Verbose  == Unparsed(Message("verbose", [data |-> Bytes]))
Debug    == Unparsed(Message("debug", [level |-> Plain, data |-> Bytes]))
Progress == Unparsed(Message("progress", [value |-> Plain]))

DeviceInfoQuery == Tested(Message("info_query", [proto_ver |-> Plain]))
\* strncpy copies one character less than the capacity, the size is that of the
\* argument: the last byte of a full text is what was there.
Text == [Wide EXCEPT !.spoils = {"full"}]
\* Of the 16 bytes of the identifier the last is never assigned. The walk of the
\* capabilities ends at the first domain without any.
DeviceInfoResp ==
  Unparsed(Message("info_resp",
    [proto_min_ver |-> Plain, max_speed |-> Plain, fw_author |-> Text, fw_url |-> Text,
     fw_version |-> Plain, type |-> Plain, devid |-> [Cut(Wide) EXCEPT !.bounded = FALSE],
     devid_last |-> Unwritten(Plain), capabilities |-> List]))
DomainInfoQuery == Tested(Message("domain_query", [domain |-> Plain]))
DomainInfoResp  == Unparsed(Message("domain_resp", [domain |-> Plain, supported_commands |-> Plain]))
DeviceReset == Command("reset_query")
ReadyResp   == Command("ready_resp")
SetSpeed    == Tested(Message("set_speed", [speed |-> Plain]))

Table ==
  [cmd_result |-> CmdResult, verbose |-> Verbose, debug |-> Debug, progress |-> Progress,
   info_query |-> DeviceInfoQuery, info_resp |-> DeviceInfoResp,
   domain_query |-> DomainInfoQuery, domain_resp |-> DomainInfoResp,
   reset_query |-> DeviceReset, ready_resp |-> ReadyResp, set_speed |-> SetSpeed]
=============================================================================
