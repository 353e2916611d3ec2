-------------------------- MODULE MCNativeAdapters --------------------------
(***************************************************************************)
(* The views that NativeAdapters is checked with.                          *)
(***************************************************************************)
EXTENDS NativeAdapters

(* Views in which each part of the menu's structure varies by itself, and  *)
(* those with what they say besides.                                       *)
MenuView ==
  [phase |-> "Running", primary |-> "Ready", detail |-> <<>>, warning |-> <<>>,
   automatic |-> TRUE, battery |-> FALSE, session |-> "Inactive",
   remaining |-> "None", state |-> "Waiting", rate |-> <<>>,
   power |-> "External", threshold |-> "1 MB/s", grace |-> "2 min",
   login |-> FALSE, updates |-> TRUE, checkEnabled |-> TRUE, result |-> <<>>,
   install |-> <<>>, logs |-> TRUE]

ChosenViews ==
  {[MenuView EXCEPT !.phase = status, !.primary = status] :
     status \in {"Starting", "Ended"}}
  \cup {[MenuView EXCEPT !.detail = text] :
          text \in {<<>>, <<"Manual">>, <<"Network">>}}
  \cup {[MenuView EXCEPT !.session = "Finite", !.remaining = time] :
          time \in {"2 min", "1 min"}}
  \cup {[MenuView EXCEPT !.threshold = rate] : rate \in {"2 MB/s", "3 MB/s"}}
  \cup {[MenuView EXCEPT !.result = <<"Update">>, !.install = <<version>>] :
          version \in {"1", "2"}}
  \cup {[MenuView EXCEPT !.session = "UntilDisabled"],
        [MenuView EXCEPT !.rate = <<"1 KB/s">>],
        [MenuView EXCEPT !.warning = <<"Attention">>],
        [MenuView EXCEPT !.grace = "5 min"],
        [MenuView EXCEPT !.result = <<"Up to date">>],
        [MenuView EXCEPT !.automatic = FALSE, !.battery = TRUE, !.login = TRUE,
                         !.threshold = "256 KB/s", !.checkEnabled = FALSE]}

=============================================================================
