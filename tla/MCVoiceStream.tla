--------------------------- MODULE MCVoiceStream ---------------------------
(* Instances of VoiceStream for TLC. *)
EXTENDS VoiceStream
=============================================================================
