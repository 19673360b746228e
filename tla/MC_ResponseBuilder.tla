-------------------------- MODULE MC_ResponseBuilder --------------------------
(***************************************************************************)
(* The send_* methods requests may call, one set per question.             *)
(***************************************************************************)
EXTENDS ResponseBuilder

\* Every method but send_data.
AllButSendData == {"das", "dds", "ddx", "data_ddx", "dmr", "dap4_data"}

\* send_data alone.
OnlySendData == {"data"}

\* send_data_ddx alone.
OnlySendDataDdx == {"data_ddx"}

\* A data request followed by a metadata request.
DataThenMetadata == {"data", "das"}

\* The two data responses.
DataResponses == {"data", "data_ddx"}

=============================================================================
