---------------------------- MODULE MCIngestJobs ----------------------------
(* Instances of IngestJobs for TLC.                                        *)
EXTENDS IngestJobs, TLC

CONSTANTS j1, pcap, cover, stego, png

\* An image job and a capture with a copy of its image and one image more than
\* PCAP_PLAIN_MAX_IMAGES.
MCImages == (j1 :> <<cover>>) @@ (pcap :> <<stego, cover, png>>)
MCSuffixOf == (cover :> ".jpg") @@ (stego :> ".jpg") @@ (png :> ".png")
=============================================================================
