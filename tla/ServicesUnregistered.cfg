SPECIFICATION Spec
CONSTANTS
    compositor = compositor
    input = input
    panel = panel
    portal = portal
    Services = {compositor, input, panel}
    Names = {compositor, input, panel, portal}
    BuiltIn = {panel}
    AutoStart = {compositor, input, panel}
    Deps <- MCDeps
    Order <- MCOrder
    Policy <- MCPolicy
    MaxRetries <- MCMaxRetries
PROPERTIES
    EveryNameFirst
