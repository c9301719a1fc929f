---------------------------- MODULE SharedState ----------------------------
(***************************************************************************)
(* Two parts of a station that its threads share: the mailbox, which is    *)
(* extended, and the dial of the radio, and what is asked of the dial.     *)
(***************************************************************************)
EXTENDS MailStore

CONSTANTS
    \* TunedRadio
    Session, Outgoing, Channel, Home, Way, Nowhere, Ui, MaxTours, MaxFaults

VARIABLES
    \* TunedRadio
    split, dial, previous, session, thread, on, restoring, sweep, scanner, tasks,
    crossed, lost, count

Radio == INSTANCE TunedRadio

----------------------------------------------------------------------------
(* The properties of the radio, as stated in TunedRadio                    *)

\* operations.py, _qsy_restore, _return_to_channel, stop_scanner: the radio
\* finds back to the calling channel.
AloneItIsReturned == Radio!AloneItIsReturned
\* docs/RELEASE_NOTES_0.6.48.md:21: the payload is carried on the channel that
\* both stations went to.
PayloadKeepsItsChannel == Radio!PayloadKeepsItsChannel
=============================================================================
