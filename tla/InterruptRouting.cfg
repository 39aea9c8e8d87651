\* Boot, the timer command, and drivers on every free IRQ of the first 8259.
CONSTANT Drivers = {3, 4, 5, 6, 7}
SPECIFICATION RoutingSpec
INVARIANTS
    DeliveredIsServed
    
