---------------------------- MODULE MCEpollServer ---------------------------
(* Instance of EpollServer for model checking: all four servers, or one  *)
(* of them in MCEpollServerAccept.cfg.                                    *)
EXTENDS EpollServer
=============================================================================
