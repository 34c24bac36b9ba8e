-------------------------- MODULE MCProviderStream --------------------------
(* ProviderProbe, and with it ProviderStream, with three calls, known to    *)
(* the provider in three ways.                                              *)
EXTENDS ProviderProbe

MCCalls == 1..3
MCNativeId == <<"opaque", "uuid", "absent">>
=============================================================================
