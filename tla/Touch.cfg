SPECIFICATION Spec
CONSTANTS
  TouchDevices = {panel, remote}
  PenDevices = {wacom, stylus}
  KeyDevices = {button}
  button = button
  Remote = {remote, wacom, button}
  Setups <- MCSetups
  panel = panel
  remote = remote
  wacom = wacom
  stylus = stylus
  Area = {a}
  Off = off
  Ids = {0, 1}
  MaxQueue = 1
  Unplug = TRUE
  QuietUnplug = TRUE
CHECK_DEADLOCK FALSE
INVARIANTS
  EventsPaired
  ViewComplete
  TouchesLeave
