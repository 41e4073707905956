------------------------------- MODULE Outcome -------------------------------
(* What an operation gives besides a value: Option::None and Result::Err.   *)

CONSTANTS
    None,   \* Option::None, an absent map entry
    Error   \* Result::Err
=============================================================================
