---------------------------- MODULE MCLlmSettings ----------------------------
(* Two admins, one model of each provider, and a second local one.          *)
EXTENDS LlmSettings, TLC

CONSTANTS ann, ben

Sessions == {ann, ben}
Admins == Permutations(Sessions)

Local == {"qwen"}
Router == {"router"}
Hosted == {"claude"}
Urls == {"remote"}

AnyStart == {None, "qwen", "router"}
=============================================================================
