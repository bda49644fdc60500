SPECIFICATION Spec
CONSTANTS
  Others = {"reader"}
  UnusedBits = {FALSE}
  MaxQueue = 2
INVARIANT RumbleObeyed
